---------------------------- MODULE Spec2Model ----------------------------
(***************************************************************************)
(* QueueTrack: CSV ingestion, validation, recalculation and undo/redo of   *)
(* src/app.js together with the persistence handlers of src/main.js.       *)
(*                                                                         *)
(* Representation.  A JavaScript string that the code inspects character   *)
(* by character (dates, e-mails, event names, numeric cells) is a sequence *)
(* of one-character strings.  A JavaScript number is an integer; NaN and   *)
(* null are the two sentinels below.  queuePercent is the exact rational   *)
(* <<numerator, denominator>> in lowest terms.                             *)
(***************************************************************************)
EXTENDS Integers, Sequences, FiniteSets, TLC

VARIABLES allTests, importHistory, undoHistory, redoHistory,
          loadCall, importCalls, confirmModal, saveQueue, dataFile, toast,
          callArg, callRet

vars == <<allTests, importHistory, undoHistory, redoHistory,
          loadCall, importCalls, confirmModal, saveQueue, dataFile, toast,
          callArg, callRet>>

dataVars == <<allTests, importHistory, undoHistory, redoHistory>>

-----------------------------------------------------------------------------
(* Program constants *)

CURRENT_SCHEMA_VERSION == 1
MAX_HISTORY_SIZE == 20
MaxQueueValue == 10000000

(* JavaScript values that are not integers *)
NaN == -2000000001
Null == -2000000002
NoImportId == 0
UndefinedNum == 0
UndefinedPct == <<0, 0>>

-----------------------------------------------------------------------------
(* Bounds of the model *)

MaxImportCalls == 1
(* Calls of importCSV that can be in flight at once when imports are
   interleaved with each other *)
MaxInterleavedImports == 2
MaxPendingSaves == 2
MaxUndoDepth == 2
MaxHistoryOps == 22
MaxRecalcLen == 3
(* Data rows of a CSV text given to parseCSV on its own *)
MaxCsvRows == 4
(* Records of a batch given to processNewTests on its own *)
MaxBatchLen == 3

-----------------------------------------------------------------------------
(* Strings *)

Digits == {"0", "1", "2", "3", "4", "5", "6", "7", "8", "9"}
DateSeparators == {"/", "-", "."}
Whitespace == {" "}

DigitValue(c) ==
    CASE c = "0" -> 0 [] c = "1" -> 1 [] c = "2" -> 2 [] c = "3" -> 3
      [] c = "4" -> 4 [] c = "5" -> 5 [] c = "6" -> 6 [] c = "7" -> 7
      [] c = "8" -> 8 [] c = "9" -> 9

DigitChar(n) ==
    CASE n = 0 -> "0" [] n = 1 -> "1" [] n = 2 -> "2" [] n = 3 -> "3"
      [] n = 4 -> "4" [] n = 5 -> "5" [] n = 6 -> "6" [] n = 7 -> "7"
      [] n = 8 -> "8" [] n = 9 -> "9"

RECURSIVE DigitsValue(_)
DigitsValue(s) ==
    IF s = <<>> THEN 0
    ELSE 10 * DigitsValue(SubSeq(s, 1, Len(s) - 1)) + DigitValue(s[Len(s)])

AllDigits(s) == \A i \in 1..Len(s) : s[i] \in Digits

RECURSIVE TrimStart(_)
TrimStart(s) ==
    IF s # <<>> /\ s[1] \in Whitespace THEN TrimStart(Tail(s)) ELSE s

RECURSIVE TrimEnd(_)
TrimEnd(s) ==
    IF s # <<>> /\ s[Len(s)] \in Whitespace
    THEN TrimEnd(SubSeq(s, 1, Len(s) - 1)) ELSE s

Trim(s) == TrimEnd(TrimStart(s))

(* Mutant of PadStart2: no padding *)
PadStart2_NoPad(n) ==
    IF n < 10 THEN <<DigitChar(n)>>
    ELSE <<DigitChar(n \div 10), DigitChar(n % 10)>>

(* String(n).padStart(2, '0') for 0 <= n <= 99 *)
PadStart2(n) ==
    IF n < 10 THEN <<"0", DigitChar(n)>>
    ELSE <<DigitChar(n \div 10), DigitChar(n % 10)>>

(* `${year}` for 1000 <= year <= 9999 *)
YearString(y) ==
    <<DigitChar(y \div 1000), DigitChar((y \div 100) % 10),
      DigitChar((y \div 10) % 10), DigitChar(y % 10)>>

(* parseInt(s): leading whitespace, an optional sign, the longest run of
   digits; NaN when there is no digit. *)
DigitPrefixLen(s) ==
    IF s = <<>> \/ s[1] \notin Digits THEN 0
    ELSE CHOOSE n \in 1..Len(s) :
            /\ \A i \in 1..n : s[i] \in Digits
            /\ (n = Len(s) \/ s[n + 1] \notin Digits)

(* The value of the first n characters of body, negated under a minus
   sign; NaN when body starts with no digit (n = 0). *)
ParseDigits(neg, body, n) ==
    IF n = 0 THEN NaN
    ELSE IF neg THEN 0 - DigitsValue(SubSeq(body, 1, n))
    ELSE DigitsValue(SubSeq(body, 1, n))

ParseSigned(neg, body) == ParseDigits(neg, body, DigitPrefixLen(body))

ParseTrimmed(s) ==
    ParseSigned(s # <<>> /\ s[1] = "-",
                IF s # <<>> /\ s[1] \in {"-", "+"} THEN Tail(s) ELSE s)

parseInt(str) == ParseTrimmed(TrimStart(str))

isNaN(x) == x = NaN

-----------------------------------------------------------------------------
(* Dates *)

IsLeapYear(y) == (y % 4 = 0 /\ y % 100 # 0) \/ y % 400 = 0

DaysInMonth(y, m) ==
    IF m = 2 THEN (IF IsLeapYear(y) THEN 29 ELSE 28)
    ELSE IF m \in {4, 6, 9, 11} THEN 30 ELSE 31

(* new Date(year, month - 1, day) for 1 <= month <= 12, 1 <= day <= 31:
   a day past the end of the month rolls over into the next month. *)
NewDateYMD(y, m, d) ==
    IF d <= DaysInMonth(y, m) THEN [year |-> y, month |-> m, day |-> d]
    ELSE IF m = 12
         THEN [year |-> y + 1, month |-> 1, day |-> d - DaysInMonth(y, m)]
         ELSE [year |-> y, month |-> m + 1, day |-> d - DaysInMonth(y, m)]

(* The parts of s between its separator characters, when s consists of
   exactly three runs of digits joined by two separators; <<>> otherwise. *)
DigitRuns(a, b, c) ==
    IF AllDigits(a) /\ AllDigits(b) /\ AllDigits(c)
    THEN <<a, b, c>> ELSE <<>>

SplitAt(s, i, j) ==
    DigitRuns(SubSeq(s, 1, i - 1), SubSeq(s, i + 1, j - 1),
              SubSeq(s, j + 1, Len(s)))

SplitAtSeparators(s, seps) ==
    IF Cardinality(seps) # 2 THEN <<>>
    ELSE SplitAt(s, CHOOSE x \in seps : \A y \in seps : x <= y,
                    CHOOSE x \in seps : \A y \in seps : x >= y)

DateParts(s) ==
    SplitAtSeparators(s, {i \in 1..Len(s) : s[i] \in DateSeparators})

(* /^(\d{4})[\/\-.](\d{1,2})[\/\-.](\d{1,2})$/ *)
IsoMatch(p) ==
    /\ p # <<>>
    /\ Len(p[1]) = 4
    /\ Len(p[2]) \in 1..2
    /\ Len(p[3]) \in 1..2

(* /^(\d{1,2})[\/\-.](\d{1,2})[\/\-.](\d{2,4})$/ *)
OtherMatch(p) ==
    /\ p # <<>>
    /\ Len(p[1]) \in 1..2
    /\ Len(p[2]) \in 1..2
    /\ Len(p[3]) \in 2..4

(* Mutant of NormalizeTriple: the triple is not compared with the Date
   built from it *)
NormalizeTriple_NoCalendar(year, month, day) ==
    IF month < 1 \/ month > 12 \/ day < 1 \/ day > 31
         \/ year < 1900 \/ year > 2100
    THEN <<>>
    ELSE YearString(year) \o <<"-">> \o PadStart2(month)
           \o <<"-">> \o PadStart2(day)

(* The canonical string, or <<>> for null. *)
NormalizeTriple(year, month, day) ==
    IF month < 1 \/ month > 12 \/ day < 1 \/ day > 31
         \/ year < 1900 \/ year > 2100
    THEN <<>>
    ELSE IF NewDateYMD(year, month, day)
              # [year |-> year, month |-> month, day |-> day]
         THEN <<>>
         ELSE YearString(year) \o <<"-">> \o PadStart2(month)
                \o <<"-">> \o PadStart2(day)

(* A two-digit year: below 50 is 20xx, otherwise 19xx *)
FullYear(c) ==
    IF c < 100 THEN (IF c < 50 THEN c + 2000 ELSE c + 1900) ELSE c

(* a, b, c: the three numbers of a date that is not year-first *)
NormalizeOther(a, b, c) ==
    IF a > 12 /\ b <= 12 THEN NormalizeTriple(c, b, a)
    ELSE IF b > 12 /\ a <= 12 THEN NormalizeTriple(c, a, b)
    ELSE NormalizeTriple(c, a, b)

(* p: the three digit runs of the trimmed string, <<>> when neither
   regular expression can match *)
NormalizeParts(p) ==
    IF IsoMatch(p)
    THEN NormalizeTriple(DigitsValue(p[1]), DigitsValue(p[2]),
                         DigitsValue(p[3]))
    ELSE IF OtherMatch(p)
    THEN NormalizeOther(DigitsValue(p[1]), DigitsValue(p[2]),
                        FullYear(DigitsValue(p[3])))
    ELSE <<>>

normalizeDate(dateString) ==
    IF dateString = <<>> THEN <<>>
    ELSE NormalizeParts(DateParts(Trim(dateString)))

(* normalizeDate on a value of any type: value.typeof is what typeof
   gives, value.s the string when it is one *)
normalizeDateOfValue(value) ==
    IF value.typeof # "string" THEN <<>> ELSE normalizeDate(value.s)

isValidDate(dateString) == normalizeDate(dateString) # <<>>

(* Days since 1970-01-01 of a civil date. *)
DaysOfEra(era, yoe, doy) ==
    era * 146097 + yoe * 365 + yoe \div 4 - yoe \div 100 + doy - 719468

DaysOfShiftedYear(yy, mp, d) ==
    DaysOfEra(yy \div 400, yy % 400, (153 * mp + 2) \div 5 + d - 1)

DaysFromCivil(y, m, d) ==
    DaysOfShiftedYear(IF m <= 2 THEN y - 1 ELSE y, (m + 9) % 12, d)

(* new Date(s) - 0 for a date-only ISO string YYYY-MM-DD, counted in days
   (the time value is this number times 86400000); NaN for any other
   string. *)
DateValue(s) ==
    IF /\ Len(s) = 10
       /\ s[5] = "-" /\ s[8] = "-"
       /\ AllDigits(SubSeq(s, 1, 4))
       /\ AllDigits(SubSeq(s, 6, 7))
       /\ AllDigits(SubSeq(s, 9, 10))
       /\ DigitsValue(SubSeq(s, 6, 7)) \in 1..12
       /\ DigitsValue(SubSeq(s, 9, 10)) \in 1..31
    THEN DaysFromCivil(DigitsValue(SubSeq(s, 1, 4)),
                       DigitsValue(SubSeq(s, 6, 7)),
                       DigitsValue(SubSeq(s, 9, 10)))
    ELSE NaN

-----------------------------------------------------------------------------
(* Rational numbers <<n, d>> with d > 0, in lowest terms *)

Abs(x) == IF x < 0 THEN 0 - x ELSE x

RECURSIVE Gcd(_, _)
Gcd(a, b) == IF b = 0 THEN a ELSE Gcd(b, a % b)

Rat(n, d) ==
    LET g == Gcd(Abs(n), d)
    IN  <<n \div g, d \div g>>

RatZero == <<0, 1>>

RatSub(p, q) == Rat(p[1] * q[2] - q[1] * p[2], p[2] * q[2])

RatLeq(p, q) == p[1] * q[2] <= q[1] * p[2]

-----------------------------------------------------------------------------
(* Record validation *)

(* /^[^\s@]+@[^\s@]+\.[^\s@]+$/ *)
isValidEmail(email) ==
    /\ \A k \in 1..Len(email) : email[k] \notin Whitespace
    /\ Cardinality({k \in 1..Len(email) : email[k] = "@"}) = 1
    /\ \E i \in 2..Len(email) : \E j \in (i + 2)..(Len(email) - 1) :
          email[i] = "@" /\ email[j] = "."

ValidationError(rowIndex, message) == [row |-> rowIndex, message |-> message]

ErrorIf(cond, rowIndex, message) ==
    IF cond THEN <<ValidationError(rowIndex, message)>> ELSE <<>>

(* Mutant of validateTestData: the first failing check ends the
   validation *)
validateTestData_ShortCircuit(test, rowIndex) ==
    IF ~isValidEmail(test.email)
    THEN <<ValidationError(rowIndex, "Invalid email format")>>
    ELSE IF ~isValidDate(test.testingDate)
    THEN <<ValidationError(rowIndex, "Invalid date")>>
    ELSE IF Len(test.eventName) = 0
    THEN <<ValidationError(rowIndex, "Event name cannot be empty")>>
    ELSE IF Len(test.eventName) > 200
    THEN <<ValidationError(rowIndex, "Event name too long")>>
    ELSE IF isNaN(test.queueNumber) \/ test.queueNumber < 0
    THEN <<ValidationError(rowIndex, "Invalid queue number")>>
    ELSE IF test.queueNumber > MaxQueueValue
    THEN <<ValidationError(rowIndex, "Queue number too large")>>
    ELSE IF test.queueAnchor = Null
    THEN <<>>
    ELSE IF isNaN(test.queueAnchor) \/ test.queueAnchor < 0
    THEN <<ValidationError(rowIndex, "Invalid queue anchor")>>
    ELSE IF test.queueAnchor > MaxQueueValue
    THEN <<ValidationError(rowIndex, "Queue anchor too large")>>
    ELSE IF test.queueAnchor < test.queueNumber
    THEN <<ValidationError(rowIndex,
                           "Queue anchor cannot be less than queue number")>>
    ELSE <<>>

validateTestData(test, rowIndex) ==
    ErrorIf(~isValidEmail(test.email), rowIndex, "Invalid email format")
    \o ErrorIf(~isValidDate(test.testingDate), rowIndex, "Invalid date")
    \o ErrorIf(Len(test.eventName) = 0, rowIndex,
               "Event name cannot be empty")
    \o ErrorIf(Len(test.eventName) > 200, rowIndex, "Event name too long")
    \o ErrorIf(isNaN(test.queueNumber)
                 \/ (~isNaN(test.queueNumber) /\ test.queueNumber < 0),
               rowIndex, "Invalid queue number")
    \o ErrorIf(~isNaN(test.queueNumber) /\ test.queueNumber > MaxQueueValue,
               rowIndex, "Queue number too large")
    \o (IF test.queueAnchor # Null
        THEN ErrorIf(isNaN(test.queueAnchor)
                       \/ (~isNaN(test.queueAnchor) /\ test.queueAnchor < 0),
                     rowIndex, "Invalid queue anchor")
             \o ErrorIf(~isNaN(test.queueAnchor)
                          /\ test.queueAnchor > MaxQueueValue,
                        rowIndex, "Queue anchor too large")
             \o ErrorIf(~isNaN(test.queueAnchor) /\ ~isNaN(test.queueNumber)
                          /\ test.queueAnchor < test.queueNumber,
                        rowIndex, "Queue anchor cannot be less than queue number")
        ELSE <<>>)

-----------------------------------------------------------------------------
(* CSV ingestion.  A CSV text is represented by what Papa.parse returns   *)
(* for it: the header fields and one row per data line, a row giving the  *)
(* cell text of each column (<<>> for an empty or absent cell).           *)

RequiredColumns == <<"Email", "Testing Date", "Event Name", "Queue Number">>

MissingColumns(fields) ==
    SelectSeq(RequiredColumns, LAMBDA req : req \notin fields)

RowIsIncomplete(row) ==
    \/ row.Email = <<>>
    \/ row.TestingDate = <<>>
    \/ row.EventName = <<>>
    \/ row.QueueNumber = <<>>

(* normalizedDate || rawDate *)
OrElse(normalizedDate, rawDate) ==
    IF normalizedDate # <<>> THEN normalizedDate ELSE rawDate

NormalizedOrRaw(rawDate) == OrElse(normalizeDate(rawDate), rawDate)

RowToTest(row) ==
    [email |-> Trim(row.Email),
     testingDate |-> NormalizedOrRaw(Trim(row.TestingDate)),
     eventName |-> Trim(row.EventName),
     queueNumber |-> parseInt(row.QueueNumber),
     queueAnchor |-> IF row.QueueAnchor # <<>>
                     THEN parseInt(row.QueueAnchor) ELSE Null,
     importId |-> NoImportId,
     testingNum |-> UndefinedNum,
     queuePercent |-> UndefinedPct,
     queueChangePercent |-> UndefinedPct]

(* The loop over parsed.data: the accepted tests and all validation
   errors, rows numbered from 2. *)
AddValidated(before, test, errors) ==
    IF Len(errors) > 0
    THEN [before EXCEPT !.validationErrors = @ \o errors]
    ELSE [before EXCEPT !.tests = Append(@, test)]

AddTest(before, test, rowIndex) ==
    AddValidated(before, test, validateTestData(test, rowIndex))

(* Mutant of AddRow: a row with an empty required cell is validated like
   any other *)
AddRow_NoSkip(before, row, rowIndex) ==
    AddTest(before, RowToTest(row), rowIndex)

AddRow(before, row, rowIndex) ==
    IF RowIsIncomplete(row) THEN before
    ELSE AddTest(before, RowToTest(row), rowIndex)

RECURSIVE ParseRows(_, _)
ParseRows(data, n) ==
    IF n = 0 THEN [tests |-> <<>>, validationErrors |-> <<>>]
    ELSE AddRow(ParseRows(data, n - 1), data[n], n + 1)

FirstN(s, n) == SubSeq(s, 1, IF Len(s) < n THEN Len(s) ELSE n)

(* error = "none": the function returns tests; any other value is the
   kind of Error it throws. *)
NoParseError ==
    [error |-> "none", column |-> "", tests |-> <<>>,
     total |-> 0, shown |-> <<>>, remaining |-> 0]

(* Mutant of ParseOutcome: the error carries every descriptor *)
ParseOutcome_NoLimit(missing, rows) ==
    IF missing # <<>>
    THEN [NoParseError EXCEPT !.error = "Missing required column",
                              !.column = missing[1]]
    ELSE IF Len(rows.validationErrors) > 0
    THEN [NoParseError EXCEPT
            !.error = "validation error(s)",
            !.total = Len(rows.validationErrors),
            !.shown = rows.validationErrors,
            !.remaining = 0]
    ELSE IF Len(rows.tests) = 0
    THEN [NoParseError EXCEPT !.error = "No valid data rows found in CSV"]
    ELSE [NoParseError EXCEPT !.tests = rows.tests]

ParseOutcome(missing, rows) ==
    IF missing # <<>>
    THEN [NoParseError EXCEPT !.error = "Missing required column",
                              !.column = missing[1]]
    ELSE IF Len(rows.validationErrors) > 0
    THEN [NoParseError EXCEPT
            !.error = "validation error(s)",
            !.total = Len(rows.validationErrors),
            !.shown = FirstN(rows.validationErrors, 10),
            !.remaining = IF Len(rows.validationErrors) - 10 > 0
                          THEN Len(rows.validationErrors) - 10 ELSE 0]
    ELSE IF Len(rows.tests) = 0
    THEN [NoParseError EXCEPT !.error = "No valid data rows found in CSV"]
    ELSE [NoParseError EXCEPT !.tests = rows.tests]

parseCSV(parsed) ==
    ParseOutcome(MissingColumns(parsed.fields),
                 ParseRows(parsed.data, Len(parsed.data)))

-----------------------------------------------------------------------------
(* Anchor inference *)

(* Names that the empty object literal {} already answers with a truthy
   inherited value: events[name] is then not an array, and .push on it
   throws a TypeError. *)
ObjectPrototypeKeys ==
    { <<"c","o","n","s","t","r","u","c","t","o","r">>,
      <<"t","o","S","t","r","i","n","g">>,
      <<"v","a","l","u","e","O","f">> }

SeqMax(nums) == CHOOSE m \in {nums[i] : i \in 1..Len(nums)} :
                    \A i \in 1..Len(nums) : nums[i] <= m

(* Mutant of CeilThousand: rounds down *)
CeilThousand_Floor(x) ==
    IF x >= 0 THEN (x \div 1000) * 1000
    ELSE 0 - ((0 - x) \div 1000) * 1000

(* Math.ceil(x / 1000) * 1000 for an integer x *)
CeilThousand(x) ==
    IF x >= 0 THEN ((x + 999) \div 1000) * 1000
    ELSE 0 - ((0 - x) \div 1000) * 1000

AnchorlessNums(newTests, event) ==
    LET idx == SelectSeq([i \in 1..Len(newTests) |-> i],
                   LAMBDA i : newTests[i].eventName = event
                              /\ newTests[i].queueAnchor = Null)
    IN  [k \in 1..Len(idx) |-> newTests[idx[k]].queueNumber]

(* Event names of the anchor-less tests, in order of first occurrence *)
AnchorlessEvents(newTests) ==
    LET idx == SelectSeq([i \in 1..Len(newTests) |-> i],
                   LAMBDA i : /\ newTests[i].queueAnchor = Null
                              /\ \A j \in 1..(i - 1) :
                                    ~(newTests[j].queueAnchor = Null
                                      /\ newTests[j].eventName
                                           = newTests[i].eventName))
    IN  [k \in 1..Len(idx) |-> newTests[idx[k]].eventName]

InferredAnchor(newTests, event) ==
    CeilThousand(SeqMax(AnchorlessNums(newTests, event)))

(* threw = TRUE: the first forEach threw before anything was appended to
   allTests.  Otherwise appended is what allTests.push(...newTests)
   appends and warnings is the return value. *)
processNewTests(newTests) ==
    LET events == AnchorlessEvents(newTests)
        threw == \E i \in 1..Len(events) : events[i] \in ObjectPrototypeKeys
    IN  IF threw
        THEN [threw |-> TRUE, appended |-> <<>>, warnings |-> <<>>]
        ELSE [threw |-> FALSE,
              appended |->
                [i \in 1..Len(newTests) |->
                   IF newTests[i].queueAnchor = Null
                   THEN [newTests[i] EXCEPT !.queueAnchor =
                            InferredAnchor(newTests, newTests[i].eventName)]
                   ELSE newTests[i]],
              warnings |->
                [k \in 1..Len(events) |->
                   [event |-> events[k],
                    anchor |-> InferredAnchor(newTests, events[k])]]]

-----------------------------------------------------------------------------
(* Recalculation *)

(* Mutant of CompareTimes: of two equal dates the first counts as the
   later *)
CompareTimes_TiesAfter(a, b) ==
    IF isNaN(a) \/ isNaN(b) THEN 0 ELSE IF a = b THEN 1 ELSE a - b

(* The comparator's result for two time values; the sort takes a NaN
   result for 0. *)
CompareTimes(a, b) == IF isNaN(a) \/ isNaN(b) THEN 0 ELSE a - b

(* groups[email].sort(...): the positions in tests of the records of one
   account, in the order Array.prototype.sort (stable) leaves them for the
   comparator new Date(a.testingDate) - new Date(b.testingDate).  dv[i] is
   the time value of tests[i].testingDate. *)
RECURSIVE InsertSorted(_, _, _)
InsertSorted(sorted, i, dv) ==
    IF sorted = <<>> THEN <<i>>
    ELSE LET last == sorted[Len(sorted)]
         IN  IF CompareTimes(dv[last], dv[i]) > 0
             THEN Append(InsertSorted(SubSeq(sorted, 1, Len(sorted) - 1),
                                      i, dv), last)
             ELSE Append(sorted, i)

RECURSIVE SortedGroup(_, _, _, _)
SortedGroup(tests, email, n, dv) ==
    IF n = 0 THEN <<>>
    ELSE IF tests[n].email = email
    THEN InsertSorted(SortedGroup(tests, email, n - 1, dv), n, dv)
    ELSE SortedGroup(tests, email, n - 1, dv)

(* Mutant of QueuePercentOf: without an anchor above 0 the percent stays
   undefined *)
QueuePercentOf_NoGuard(t) ==
    IF t.queueAnchor # Null /\ t.queueAnchor # 0 /\ ~isNaN(t.queueAnchor)
         /\ t.queueAnchor > 0
    THEN Rat(t.queueNumber * 100, t.queueAnchor)
    ELSE UndefinedPct

QueuePercentOf(t) ==
    IF t.queueAnchor # Null /\ t.queueAnchor # 0 /\ ~isNaN(t.queueAnchor)
         /\ t.queueAnchor > 0
    THEN Rat(t.queueNumber * 100, t.queueAnchor)
    ELSE RatZero

PositionIn(seq, x) == CHOOSE k \in 1..Len(seq) : seq[k] = x

(* Mutant of recalculateAll: the change is taken against the percent the
   previous record held before this run *)
recalculateAll_Stale(tests) ==
    LET n == Len(tests)
        dv == [i \in 1..n |-> DateValue(tests[i].testingDate)]
        groups == [e \in {tests[i].email : i \in 1..n} |->
                      SortedGroup(tests, e, n, dv)]
    IN  [i \in 1..n |->
           LET group == groups[tests[i].email]
               k == PositionIn(group, i)
           IN  [tests[i] EXCEPT
                  !.testingNum = k,
                  !.queuePercent = QueuePercentOf(tests[i]),
                  !.queueChangePercent =
                      IF k > 1
                      THEN RatSub(QueuePercentOf(tests[i]),
                                  tests[group[k - 1]].queuePercent)
                      ELSE RatZero]]

recalculateAll(tests) ==
    LET n == Len(tests)
        dv == [i \in 1..n |-> DateValue(tests[i].testingDate)]
        groups == [e \in {tests[i].email : i \in 1..n} |->
                      SortedGroup(tests, e, n, dv)]
    IN  [i \in 1..n |->
           LET group == groups[tests[i].email]
               k == PositionIn(group, i)
           IN  [tests[i] EXCEPT
                  !.testingNum = k,
                  !.queuePercent = QueuePercentOf(tests[i]),
                  !.queueChangePercent =
                      IF k > 1
                      THEN RatSub(QueuePercentOf(tests[i]),
                                  QueuePercentOf(tests[group[k - 1]]))
                      ELSE RatZero]]

(* sorted: the positions of the account's records after the sort *)
OverallChangeOf(tests, sorted) ==
    IF Len(sorted) < 2 THEN <<>>
    ELSE RatSub(tests[sorted[Len(sorted) - 1]].queuePercent,
                tests[sorted[Len(sorted)]].queuePercent)

(* Mutant of getOverallChange: the account's records are taken in the
   order of the collection, without the sort *)
getOverallChange_Unsorted(tests, email) ==
    OverallChangeOf(tests,
        SelectSeq([i \in 1..Len(tests) |-> i],
                  LAMBDA i : tests[i].email = email))

(* getOverallChange(email) on the collection tests; <<>> for null *)
getOverallChange(tests, email) ==
    OverallChangeOf(tests,
        SortedGroup(tests, email, Len(tests),
            [i \in 1..Len(tests) |-> DateValue(tests[i].testingDate)]))

-----------------------------------------------------------------------------
(* The accounts table *)

NegTime(x) == IF isNaN(x) THEN NaN ELSE 0 - x

(* groups[email].sort((a, b) => new Date(b.testingDate) - new
   Date(a.testingDate)): the positions in tests of the records of one
   account, latest date first *)
DescendingGroup(tests, email) ==
    SortedGroup(tests, email, Len(tests),
        [i \in 1..Len(tests) |-> NegTime(DateValue(tests[i].testingDate))])

(* The keys of groups in the order for...in visits them: the accounts in
   the order of their first record *)
FirstOfAccount(tests) ==
    SelectSeq([i \in 1..Len(tests) |-> i],
              LAMBDA i : \A j \in 1..(i - 1) : tests[j].email # tests[i].email)

RatLess(p, q) == p[1] * q[2] < q[1] * p[2]

JuicePercent == 10
JuiceAnchor == 50000

(* Mutant of shouldInclude: an account without change, or with change 0,
   counts as improving *)
shouldInclude_ZeroImproving(currentFilter, latest, change) ==
    IF currentFilter = "instants"
    THEN RatLeq(latest.queuePercent, <<1, 1>>)
    ELSE IF currentFilter = "juice"
    THEN /\ RatLeq(latest.queuePercent, <<JuicePercent, 1>>)
         /\ latest.queueAnchor # Null
         /\ latest.queueAnchor >= JuiceAnchor
    ELSE IF currentFilter = "excellent"
    THEN /\ RatLess(<<10, 1>>, latest.queuePercent)
         /\ RatLeq(latest.queuePercent, <<20, 1>>)
    ELSE IF currentFilter = "improving"
    THEN change = <<>> \/ RatLeq(RatZero, change)
    ELSE IF currentFilter = "declining"
    THEN change # <<>> /\ RatLess(change, RatZero)
    ELSE TRUE

(* shouldInclude for the filters of the filter chips; latest is tests[0]
   of the account's descending list, change is getOverallChange(email) *)
shouldInclude(currentFilter, latest, change) ==
    IF currentFilter = "instants"
    THEN RatLeq(latest.queuePercent, <<1, 1>>)
    ELSE IF currentFilter = "juice"
    THEN /\ RatLeq(latest.queuePercent, <<JuicePercent, 1>>)
         /\ latest.queueAnchor # Null
         /\ latest.queueAnchor >= JuiceAnchor
    ELSE IF currentFilter = "excellent"
    THEN /\ RatLess(<<10, 1>>, latest.queuePercent)
         /\ RatLeq(latest.queuePercent, <<20, 1>>)
    ELSE IF currentFilter = "improving"
    THEN change # <<>> /\ RatLess(RatZero, change)
    ELSE IF currentFilter = "declining"
    THEN change # <<>> /\ RatLess(change, RatZero)
    ELSE TRUE

TableEntry(email, descending) == [email |-> email, tests |-> descending]

AccountEntry(tests, email) ==
    TableEntry(email, DescendingGroup(tests, email))

IncludeEntry(currentFilter, tests, entry) ==
    shouldInclude(currentFilter, tests[entry.tests[1]],
                  getOverallChange(tests, entry.email))

(* getTableData(): one entry per account that the filter includes; the
   tests of an entry are positions in the collection *)
getTableData(tests, currentFilter) ==
    SelectSeq([k \in 1..Len(FirstOfAccount(tests)) |->
                 AccountEntry(tests, tests[FirstOfAccount(tests)[k]].email)],
              LAMBDA entry : IncludeEntry(currentFilter, tests, entry))

(* getOverallChange(email) || 0 *)
ChangeOrZero(change) == IF change = <<>> THEN RatZero ELSE change

SortKey(tests, entry) == ChangeOrZero(getOverallChange(tests, entry.email))

(* The comparator of the sort by change says a comes after b *)
ComesAfter(direction, aChange, bChange) ==
    IF direction = "asc" THEN RatLess(bChange, aChange)
    ELSE RatLess(aChange, bChange)

RECURSIVE InsertEntry(_, _, _, _)
InsertEntry(sorted, entry, tests, direction) ==
    IF sorted = <<>> THEN <<entry>>
    ELSE IF ComesAfter(direction, SortKey(tests, sorted[Len(sorted)]),
                       SortKey(tests, entry))
    THEN Append(InsertEntry(SubSeq(sorted, 1, Len(sorted) - 1), entry,
                            tests, direction),
                sorted[Len(sorted)])
    ELSE Append(sorted, entry)

(* data.sort(...) by change: stable *)
RECURSIVE SortByChange(_, _, _, _)
SortByChange(data, n, tests, direction) ==
    IF n = 0 THEN <<>>
    ELSE InsertEntry(SortByChange(data, n - 1, tests, direction), data[n],
                     tests, direction)

SortedData(data, tests, direction) ==
    SortByChange(data, Len(data), tests, direction)

(* renderTable() with currentSort.field = 'change': the rows of the
   table, in order *)
renderTable(tests, currentFilter, direction) ==
    SortedData(getTableData(tests, currentFilter), tests, direction)

-----------------------------------------------------------------------------
(* Inputs of the model: stored data files and CSV files *)

EmailA == <<"a", "@", "b", ".", "c">>
EmailB == <<"d", "@", "e", ".", "f">>
EventE == <<"E">>
EventConstructor == <<"c","o","n","s","t","r","u","c","t","o","r">>
Jan10 == <<"2","0","2","6","-","0","1","-","1","0">>
Jan15 == <<"2","0","2","6","-","0","1","-","1","5">>
Jan20 == <<"2","0","2","6","-","0","1","-","2","0">>
Jan15US == <<"0","1","/","1","5","/","2","0","2","6">>
Jan20EU == <<"2","0",".","0","1",".","2","6">>
Text500 == <<"5","0","0">>
Text1500 == <<"1","5","0","0">>
Text100 == <<"1","0","0">>
Text1000 == <<"1","0","0","0">>

AllColumns == {"Email", "Testing Date", "Event Name", "Queue Number",
               "Queue Anchor"}

Row(email, date, event, number, anchor) ==
    [Email |-> email, TestingDate |-> date, EventName |-> event,
     QueueNumber |-> number, QueueAnchor |-> anchor]

CsvFile(filename, readable, fields, data) ==
    [filename |-> filename, readable |-> readable,
     parsed |-> [fields |-> fields, data |-> data]]

CsvFiles ==
    << CsvFile("one.csv", TRUE, AllColumns,
               <<Row(EmailA, Jan15US, EventE, Text500, Text1000)>>),
       CsvFile("two.csv", TRUE, AllColumns \ {"Queue Anchor"},
               <<Row(EmailA, Jan10, EventE, Text1500, <<>>),
                 Row(EmailB, Jan20EU, EventE, Text500, <<>>)>>),
       CsvFile("nocolumn.csv", TRUE, AllColumns \ {"Queue Number"},
               <<Row(EmailA, Jan10, EventE, <<>>, Text1000)>>),
       CsvFile("invalid.csv", TRUE, AllColumns,
               <<Row(EmailB, Jan10, EventE, Text500, Text1000),
                 Row(EmailA, Jan10, EventE, Text500, Text100)>>),
       CsvFile("blank.csv", TRUE, AllColumns,
               <<Row(EmailA, <<>>, EventE, Text500, Text1000)>>),
       CsvFile("proto.csv", TRUE, AllColumns,
               <<Row(EmailA, Jan10, EventConstructor, Text500, <<>>)>>),
       CsvFile("missing.csv", FALSE, {}, <<>>) >>

StoredTest(email, date, number, anchor, importId) ==
    [email |-> email, testingDate |-> date, eventName |-> EventE,
     queueNumber |-> number, queueAnchor |-> anchor, importId |-> importId,
     testingNum |-> 1, queuePercent |-> Rat(number * 100, anchor),
     queueChangePercent |-> RatZero]

StoredImportId == 9

AbsentFile ==
    [kind |-> "absent", version |-> 0, tests |-> <<>>, imports |-> <<>>,
     hasImports |-> FALSE]

(* A file written by this version, and a bare array written by the first
   version of the application. *)
InitialDataFiles ==
    { AbsentFile,
      [kind |-> "object", version |-> 1,
       tests |-> <<StoredTest(EmailA, Jan20, 500, 2000, StoredImportId)>>,
       imports |-> <<[id |-> StoredImportId, filename |-> "old.csv",
                      date |-> StoredImportId, testCount |-> 1]>>,
       hasImports |-> TRUE],
      [kind |-> "array", version |-> 0,
       tests |-> <<StoredTest(EmailA, Jan20, 500, 2000, NoImportId)>>,
       imports |-> <<>>, hasImports |-> FALSE] }

-----------------------------------------------------------------------------
(* Persistence *)

(* JSON.parse(JSON.stringify(tests)): NaN becomes null, everything else a
   test record holds is copied. *)
JsonNumber(x) == IF isNaN(x) THEN Null ELSE x

JsonCopy(tests) ==
    [i \in 1..Len(tests) |->
        [tests[i] EXCEPT !.queueNumber = JsonNumber(@),
                         !.queueAnchor = JsonNumber(@)]]

(* The argument saveData passes to api.saveData *)
DataToSave(tests, imports) ==
    [kind |-> "object", version |-> CURRENT_SCHEMA_VERSION,
     tests |-> JsonCopy(tests), imports |-> imports, hasImports |-> TRUE]

(* saveData(): one more 'save-data' request in flight; awaiter says whose
   continuation runs when it is answered (0: nobody's). *)
SaveRequest(tests, imports, awaiter) ==
    [data |-> DataToSave(tests, imports), awaiter |-> awaiter]

AwaitLoad == -1
AwaitClear == -2
AwaitRemove == -3

(* ipcMain.handle('load-data') *)
LoadDataHandler(file) ==
    IF file.kind = "absent"
    THEN [kind |-> "object", version |-> 1, tests |-> <<>>,
          imports |-> <<>>, hasImports |-> FALSE]
    ELSE file

migrateData(data) ==
    IF data.version = 0
    THEN [kind |-> "object", version |-> 1,
          tests |-> IF data.kind = "array" THEN data.tests ELSE <<>>,
          imports |-> <<>>, hasImports |-> TRUE]
    ELSE IF ~data.hasImports
    THEN [data EXCEPT !.imports = <<>>, !.hasImports = TRUE]
    ELSE data

-----------------------------------------------------------------------------
(* History *)

(* Mutants of saveToHistory: no eviction; eviction of the newest entry;
   the redo stack kept. *)
saveToHistory_NoEvict(tests, undoH, redoH) ==
    [undoHistory |-> Append(undoH, JsonCopy(tests)),
     redoHistory |-> <<>>]

saveToHistory_EvictNewest(tests, undoH, redoH) ==
    LET pushed == Append(undoH, JsonCopy(tests))
    IN  [undoHistory |-> IF Len(pushed) > MAX_HISTORY_SIZE
                         THEN SubSeq(pushed, 1, Len(pushed) - 1)
                         ELSE pushed,
         redoHistory |-> <<>>]

saveToHistory_KeepRedo(tests, undoH, redoH) ==
    LET pushed == Append(undoH, JsonCopy(tests))
    IN  [undoHistory |-> IF Len(pushed) > MAX_HISTORY_SIZE
                         THEN Tail(pushed) ELSE pushed,
         redoHistory |-> redoH]

(* The stacks after saveToHistory() *)
saveToHistory(tests, undoH, redoH) ==
    [undoHistory |-> IF Len(undoH) + 1 > MAX_HISTORY_SIZE
                     THEN Tail(Append(undoH, JsonCopy(tests)))
                     ELSE Append(undoH, JsonCopy(tests)),
     redoHistory |-> <<>>]

Pop(stack) == SubSeq(stack, 1, Len(stack) - 1)
Top(stack) == stack[Len(stack)]

-----------------------------------------------------------------------------
(* showToast(message, type): the model keeps the type of the toast shown
   last. *)
ToastInfo == "info"
ToastSuccess == "success"
ToastError == "error"

(* Initial state: the module-level declarations of app.js, and the data
   file left by an earlier run. *)

(* The calls of importCSV the model follows *)
ImportCallIds == DOMAIN importCalls

NoModal == [action |-> "none", importId |-> NoImportId]

Init ==
    /\ allTests = <<>>
    /\ importHistory = <<>>
    /\ undoHistory = <<>>
    /\ redoHistory = <<>>
    /\ loadCall = [pc |-> "start", migratedData |-> AbsentFile]
    /\ importCalls = [i \in 1..MaxImportCalls |-> [pc |-> "idle"]]
    /\ confirmModal = NoModal
    /\ saveQueue = <<>>
    /\ dataFile \in InitialDataFiles
    /\ toast = ""
    /\ callArg = <<>>
    /\ callRet = <<>>

(* The listeners are installed once loadData has returned; the file dialog
   is modal to the window, which takes no input while the dialog is open. *)
Ready ==
    /\ loadCall.pc = "ready"
    /\ \A i \in ImportCallIds : importCalls[i].pc # "select"

-----------------------------------------------------------------------------
(* loadData, up to its await of saveData or to its end *)

LoadData ==
    /\ loadCall.pc = "start"
    /\ LET data == LoadDataHandler(dataFile)
           migratedData == migrateData(data)
       IN  IF migratedData.version # data.version
           THEN /\ saveQueue' = Append(saveQueue,
                        SaveRequest(allTests, importHistory, AwaitLoad))
                /\ loadCall' = [pc |-> "resave",
                                migratedData |-> migratedData]
                /\ UNCHANGED <<allTests, importHistory>>
           ELSE /\ allTests' = recalculateAll(migratedData.tests)
                /\ importHistory' = migratedData.imports
                /\ loadCall' = [loadCall EXCEPT !.pc = "ready"]
                /\ UNCHANGED saveQueue
    /\ UNCHANGED <<undoHistory, redoHistory, importCalls, confirmModal,
                   dataFile, toast, callArg, callRet>>

-----------------------------------------------------------------------------
(* The operations on the dataset, as functions of the state they read *)

(* Mutant of undo: the empty stack is not checked for *)
undo_NoGuard(tests, undoH, redoH) ==
    [done |-> TRUE,
     allTests |-> IF Len(undoH) = 0 THEN <<>>
                  ELSE recalculateAll(Top(undoH)),
     undoHistory |-> IF Len(undoH) = 0 THEN <<>> ELSE Pop(undoH),
     redoHistory |-> Append(redoH, JsonCopy(tests)),
     toast |-> ToastSuccess]

undo(tests, undoH, redoH) ==
    IF Len(undoH) = 0
    THEN [done |-> FALSE, allTests |-> tests, undoHistory |-> undoH,
          redoHistory |-> redoH, toast |-> ToastInfo]
    ELSE [done |-> TRUE,
          allTests |-> recalculateAll(Top(undoH)),
          undoHistory |-> Pop(undoH),
          redoHistory |-> Append(redoH, JsonCopy(tests)),
          toast |-> ToastSuccess]

(* Mutant of redo: the current state is not pushed onto the undo stack *)
redo_NoPush(tests, undoH, redoH) ==
    IF Len(redoH) = 0
    THEN [done |-> FALSE, allTests |-> tests, undoHistory |-> undoH,
          redoHistory |-> redoH, toast |-> ToastInfo]
    ELSE [done |-> TRUE,
          allTests |-> recalculateAll(Top(redoH)),
          undoHistory |-> undoH,
          redoHistory |-> Pop(redoH),
          toast |-> ToastSuccess]

redo(tests, undoH, redoH) ==
    IF Len(redoH) = 0
    THEN [done |-> FALSE, allTests |-> tests, undoHistory |-> undoH,
          redoHistory |-> redoH, toast |-> ToastInfo]
    ELSE [done |-> TRUE,
          allTests |-> recalculateAll(Top(redoH)),
          undoHistory |-> Append(undoH, JsonCopy(tests)),
          redoHistory |-> Pop(redoH),
          toast |-> ToastSuccess]

(* The dataset and the stacks h that an operation leaves *)
Dataset(tests, imports, h) ==
    [allTests |-> tests, importHistory |-> imports,
     undoHistory |-> h.undoHistory, redoHistory |-> h.redoHistory]

(* Mutant of clearAllData: the snapshot is taken after the collection has
   been emptied *)
clearAllData_SnapshotAfter(tests, imports, undoH, redoH) ==
    LET h == saveToHistory(<<>>, undoH, redoH)
    IN  [allTests |-> <<>>, importHistory |-> imports,
         undoHistory |-> h.undoHistory, redoHistory |-> h.redoHistory]

(* The confirmed callback of clearAllData *)
clearAllData(tests, imports, undoH, redoH) ==
    Dataset(<<>>, imports, saveToHistory(tests, undoH, redoH))

(* Mutant of removeImport: the batch entry stays in the list *)
removeImport_KeepEntry(importId, tests, imports, undoH, redoH) ==
    Dataset(recalculateAll(SelectSeq(tests,
                               LAMBDA t : t.importId # importId)),
            imports,
            saveToHistory(tests, undoH, redoH))

(* Mutant of removeImport: recalculateAll is not called *)
removeImport_NoRecalc(importId, tests, imports, undoH, redoH) ==
    LET h == saveToHistory(tests, undoH, redoH)
    IN  [allTests |-> SelectSeq(tests, LAMBDA t : t.importId # importId),
         importHistory |-> SelectSeq(imports, LAMBDA i : i.id # importId),
         undoHistory |-> h.undoHistory, redoHistory |-> h.redoHistory]

(* The confirmed callback of removeImport *)
removeImport(importId, tests, imports, undoH, redoH) ==
    Dataset(recalculateAll(SelectSeq(tests,
                               LAMBDA t : t.importId # importId)),
            SelectSeq(imports, LAMBDA i : i.id # importId),
            saveToHistory(tests, undoH, redoH))

TagTests(tests, importId) ==
    [k \in 1..Len(tests) |-> [tests[k] EXCEPT !.importId = importId]]

(* importCSV from the answer of api.readCsvFile to its await of saveData
   or to its return.  outcome = "saved": the dataset was changed and a
   save was issued; "threw": processNewTests threw after the import id was
   drawn; "failed": the function returned before saveToHistory. *)
ImportOutcome(outcome, tests, imports, undoH, redoH, toastType) ==
    [outcome |-> outcome, allTests |-> tests, importHistory |-> imports,
     undoHistory |-> undoH, redoHistory |-> redoH, toast |-> toastType]

(* Mutant of ImportProcessed: the snapshot is the collection with the
   new records already in it *)
ImportProcessed_SnapshotAfter(importId, filename, testCount, new, h, tests, imports) ==
    IF new.threw
    THEN ImportOutcome("threw", tests, imports, h.undoHistory,
                       h.redoHistory, ToastError)
    ELSE ImportOutcome("saved",
             recalculateAll(tests \o new.appended),
             Append(imports, [id |-> importId, filename |-> filename,
                              date |-> importId, testCount |-> testCount]),
             [h.undoHistory EXCEPT ![Len(h.undoHistory)] =
                 JsonCopy(recalculateAll(tests \o new.appended))],
             h.redoHistory, ToastInfo)

(* Mutant of ImportProcessed: a stored record without anchor takes the
   anchor of the batch's first record of its event *)
ImportProcessed_Retroactive(importId, filename, testCount, new, h, tests, imports) ==
    IF new.threw
    THEN ImportOutcome("threw", tests, imports, h.undoHistory,
                       h.redoHistory, ToastError)
    ELSE ImportOutcome("saved",
             recalculateAll(
                [k \in 1..Len(tests) |->
                   IF /\ tests[k].queueAnchor = Null
                      /\ \E n \in 1..Len(new.appended) :
                            new.appended[n].eventName = tests[k].eventName
                   THEN [tests[k] EXCEPT !.queueAnchor =
                           new.appended[
                              CHOOSE n \in 1..Len(new.appended) :
                                 new.appended[n].eventName
                                    = tests[k].eventName].queueAnchor]
                   ELSE tests[k]]
                \o new.appended),
             Append(imports, [id |-> importId, filename |-> filename,
                              date |-> importId, testCount |-> testCount]),
             h.undoHistory, h.redoHistory, ToastInfo)

(* From saveToHistory() on: h is what it leaves, new what
   processNewTests does with the tagged tests *)
ImportProcessed(importId, filename, testCount, new, h, tests, imports) ==
    IF new.threw
    THEN ImportOutcome("threw", tests, imports, h.undoHistory,
                       h.redoHistory, ToastError)
    ELSE ImportOutcome("saved",
             recalculateAll(tests \o new.appended),
             Append(imports, [id |-> importId, filename |-> filename,
                              date |-> importId, testCount |-> testCount]),
             h.undoHistory, h.redoHistory, ToastInfo)

(* From the return or throw of parseCSV on *)
ImportParsed(importId, filename, result, tests, imports, undoH, redoH) ==
    IF result.error # "none" \/ Len(result.tests) = 0
    THEN ImportOutcome("failed", tests, imports, undoH, redoH, ToastError)
    ELSE ImportProcessed(importId, filename, Len(result.tests),
             processNewTests(TagTests(result.tests, importId)),
             saveToHistory(tests, undoH, redoH), tests, imports)

importCSV(importId, file, tests, imports, undoH, redoH) ==
    IF ~file.readable
    THEN ImportOutcome("failed", tests, imports, undoH, redoH, ToastError)
    ELSE ImportParsed(importId, file.filename, parseCSV(file.parsed),
                      tests, imports, undoH, redoH)

-----------------------------------------------------------------------------
(* Actions *)

(* ipcMain.handle('save-data') serves the oldest request, and the function
   awaiting it resumes. *)
SaveDataDone ==
    /\ saveQueue # <<>>
    /\ LET req == Head(saveQueue)
       IN  /\ dataFile' = req.data
           /\ saveQueue' = Tail(saveQueue)
           /\ IF req.awaiter = AwaitLoad
              THEN /\ allTests' = recalculateAll(loadCall.migratedData.tests)
                   /\ importHistory' = loadCall.migratedData.imports
                   /\ loadCall' = [loadCall EXCEPT !.pc = "ready"]
                   /\ UNCHANGED <<importCalls, toast>>
              ELSE IF req.awaiter \in ImportCallIds
              THEN /\ importCalls' =
                         [importCalls EXCEPT ![req.awaiter].pc = "done"]
                   /\ toast' = ToastSuccess
                   /\ UNCHANGED <<allTests, importHistory, loadCall>>
              ELSE /\ toast' = IF req.awaiter = AwaitClear
                               THEN ToastSuccess
                               ELSE IF req.awaiter = AwaitRemove
                               THEN ToastSuccess
                               ELSE toast
                   /\ UNCHANGED <<allTests, importHistory, loadCall,
                                  importCalls>>
    /\ UNCHANGED <<undoHistory, redoHistory, confirmModal, callArg, callRet>>

(* Mutant of HistoryStep: undo and redo do not save *)
HistoryStep_NoSave(r) ==
    /\ allTests' = r.allTests
    /\ undoHistory' = r.undoHistory
    /\ redoHistory' = r.redoHistory
    /\ toast' = r.toast
    /\ UNCHANGED <<saveQueue, importHistory, loadCall, importCalls,
                   confirmModal, dataFile, callArg, callRet>>

(* The state after undo() or redo() has run to its end with result r;
   nothing awaits the save it issues. *)
HistoryStep(r) ==
    /\ allTests' = r.allTests
    /\ undoHistory' = r.undoHistory
    /\ redoHistory' = r.redoHistory
    /\ toast' = r.toast
    /\ saveQueue' = IF r.done
                    THEN Append(saveQueue,
                             SaveRequest(r.allTests, importHistory, 0))
                    ELSE saveQueue
    /\ UNCHANGED <<importHistory, loadCall, importCalls, confirmModal,
                   dataFile, callArg, callRet>>

UndoRequested ==
    /\ Ready
    /\ HistoryStep(undo(allTests, undoHistory, redoHistory))

RedoRequested ==
    /\ Ready
    /\ HistoryStep(redo(allTests, undoHistory, redoHistory))

(* clearAllData(): only shows the confirmation modal *)
ClearAllDataRequested ==
    /\ Ready
    /\ confirmModal' = [action |-> "clear", importId |-> NoImportId]
    /\ UNCHANGED <<allTests, importHistory, undoHistory, redoHistory,
                   loadCall, importCalls, saveQueue, dataFile,
                   toast, callArg, callRet>>

(* removeImport(importId): returns at once for an unknown id, otherwise
   shows the confirmation modal *)
RemoveImportRequested(importId) ==
    /\ Ready
    /\ confirmModal' =
          IF \E k \in 1..Len(importHistory) : importHistory[k].id = importId
          THEN [action |-> "remove", importId |-> importId]
          ELSE confirmModal
    /\ UNCHANGED <<allTests, importHistory, undoHistory, redoHistory,
                   loadCall, importCalls, saveQueue, dataFile,
                   toast, callArg, callRet>>

CloseConfirmModal ==
    /\ confirmModal # NoModal
    /\ confirmModal' = NoModal
    /\ UNCHANGED <<allTests, importHistory, undoHistory, redoHistory,
                   loadCall, importCalls, saveQueue, dataFile,
                   toast, callArg, callRet>>

(* The modal's action button: closes the modal and runs the callback up to
   its await of saveData. *)
Confirmed(r, awaiter) ==
    /\ allTests' = r.allTests
    /\ importHistory' = r.importHistory
    /\ undoHistory' = r.undoHistory
    /\ redoHistory' = r.redoHistory
    /\ saveQueue' = Append(saveQueue,
                        SaveRequest(r.allTests, r.importHistory, awaiter))

ConfirmClicked ==
    /\ confirmModal # NoModal
    /\ confirmModal' = NoModal
    /\ IF confirmModal.action = "clear"
       THEN Confirmed(clearAllData(allTests, importHistory, undoHistory,
                                   redoHistory), AwaitClear)
       ELSE Confirmed(removeImport(confirmModal.importId, allTests,
                                   importHistory, undoHistory, redoHistory),
                      AwaitRemove)
    /\ UNCHANGED <<loadCall, importCalls, dataFile, toast,
                   callArg, callRet>>

(* importCSV() is invoked and awaits api.selectCsvFile().  Call i is the
   call that will draw import id i if it gets that far; a call that returns
   without drawing its id leaves the id to a later call. *)
ImportRequested(i) ==
    /\ Ready
    /\ importCalls[i].pc = "idle"
    /\ \A j \in 1..(i - 1) : importCalls[j].pc # "idle"
    /\ importCalls' = [importCalls EXCEPT ![i].pc = "select"]
    /\ UNCHANGED <<allTests, importHistory, undoHistory, redoHistory,
                   loadCall, confirmModal, saveQueue, dataFile,
                   toast, callArg, callRet>>

(* The file dialog answers with a path, or with null when cancelled *)
SelectCsvFileDone(i, cancelled) ==
    /\ importCalls[i].pc = "select"
    /\ IF cancelled
       THEN /\ importCalls' = [importCalls EXCEPT ![i].pc = "idle"]
            /\ UNCHANGED toast
       ELSE /\ importCalls' = [importCalls EXCEPT ![i].pc = "read"]
            /\ toast' = ToastInfo
    /\ UNCHANGED <<allTests, importHistory, undoHistory, redoHistory,
                   loadCall, confirmModal, saveQueue, dataFile,
                   callArg, callRet>>

(* api.readCsvFile answers with what the selected path holds, file f;
   importCSV runs on to its await of saveData or to its return.  The
   import id is the call's own, fresh token. *)
Imported(i, r) ==
    /\ allTests' = r.allTests
    /\ importHistory' = r.importHistory
    /\ undoHistory' = r.undoHistory
    /\ redoHistory' = r.redoHistory
    /\ IF r.outcome = "saved"
       THEN /\ saveQueue' = Append(saveQueue,
                   SaveRequest(r.allTests, r.importHistory, i))
            /\ importCalls' = [importCalls EXCEPT ![i].pc = "save"]
            /\ UNCHANGED toast
       ELSE /\ importCalls' = [importCalls EXCEPT ![i].pc =
                                   IF r.outcome = "threw"
                                   THEN "done" ELSE "idle"]
            /\ toast' = r.toast
            /\ UNCHANGED saveQueue

ReadCsvFileDone(i, f) ==
    /\ importCalls[i].pc = "read"
    /\ Imported(i, importCSV(i, CsvFiles[f], allTests,
                             importHistory, undoHistory, redoHistory))
    /\ UNCHANGED <<loadCall, confirmModal, dataFile,
                   callArg, callRet>>

-----------------------------------------------------------------------------
(* The application: every operation at any time, within the bounds *)

CanSave == Len(saveQueue) < MaxPendingSaves

(* Bounds how often the history can be pushed onto by clearing again. *)
HistoryBelow(depth) == Len(undoHistory) + Len(redoHistory) < depth

KnownImportIds == ImportCallIds \cup {StoredImportId}

Next ==
    \/ LoadData
    \/ SaveDataDone
    \/ (CanSave /\ UndoRequested)
    \/ (CanSave /\ RedoRequested)
    \/ (HistoryBelow(MaxUndoDepth) /\ ClearAllDataRequested)
    \/ (\E id \in KnownImportIds : RemoveImportRequested(id))
    \/ CloseConfirmModal
    \/ (/\ CanSave
        /\ confirmModal.action = "clear" => HistoryBelow(MaxUndoDepth)
        /\ ConfirmClicked)
    \/ (\E i \in ImportCallIds : ImportRequested(i))
    \/ (\E i \in ImportCallIds : \E cancelled \in BOOLEAN :
           SelectCsvFileDone(i, cancelled))
    \/ (\E i \in ImportCallIds : \E f \in 1..Len(CsvFiles) :
           CanSave /\ ReadCsvFileDone(i, f))

Spec == Init /\ [][Next]_vars

-----------------------------------------------------------------------------
(* The history at full depth: a first run (no data file), one CSV file,
   every save answered before the next operation, any number of clear-all,
   undo and redo. *)

InitHistory ==
    /\ Init
    /\ dataFile = AbsentFile

SavesDone == saveQueue = <<>>

NextHistory ==
    \/ LoadData
    \/ SaveDataDone
    \/ (SavesDone /\ UndoRequested)
    \/ (SavesDone /\ RedoRequested)
    \/ (SavesDone /\ HistoryBelow(MaxHistoryOps) /\ ClearAllDataRequested)
    \/ (SavesDone /\ HistoryBelow(MaxHistoryOps) /\ ConfirmClicked)
    \/ (\E i \in ImportCallIds : SavesDone /\ ImportRequested(i))
    \/ (\E i \in ImportCallIds : SelectCsvFileDone(i, FALSE))
    \/ (\E i \in ImportCallIds :
           SavesDone /\ HistoryBelow(MaxHistoryOps) /\ ReadCsvFileDone(i, 1))

SpecHistory == InitHistory /\ [][NextHistory]_vars

-----------------------------------------------------------------------------
(* Steps the claims speak about *)

(* A successful import: importCSV runs from parseCSV to its await of
   saveData. *)
ImportSucceeded ==
    \E i \in ImportCallIds : \E f \in 1..Len(CsvFiles) :
        ReadCsvFileDone(i, f) /\ importCalls'[i].pc = "save"

(* An import that ends without having imported *)
ImportFailed ==
    \/ \E i \in ImportCallIds : SelectCsvFileDone(i, TRUE)
    \/ \E i \in ImportCallIds : \E f \in 1..Len(CsvFiles) :
          ReadCsvFileDone(i, f) /\ importCalls'[i].pc # "save"

(* Import, clear-all or remove-import-batch changes the dataset *)
MutatingStep == ImportSucceeded \/ ConfirmClicked

UndoDone == UndoRequested /\ Len(undoHistory) > 0
RedoDone == RedoRequested /\ Len(redoHistory) > 0

SameAccount(t, u) == t.email = u.email

AccountSize(tests, email) ==
    Cardinality({i \in 1..Len(tests) : tests[i].email = email})

-----------------------------------------------------------------------------
(* C1: every mutating operation (successful import, clear-all,
   remove-import-batch) pushes a snapshot of the Test Record collection as
   it was before the operation, and an undo issued directly after the
   operation leaves the collection equal to that pre-operation collection:
   same records, same order, same raw and derived fields. *)
C1_UndoRestoresPreMutation ==
    [][MutatingStep =>
         /\ Len(undoHistory') > 0
         /\ Top(undoHistory') = allTests
         /\ undo(allTests', undoHistory', redoHistory').done
         /\ undo(allTests', undoHistory', redoHistory').allTests = allTests
      ]_vars

(* An import onto a non-empty collection has been undone: the collection is
   again the smaller, non-empty one and the imported state is on the redo
   stack. *)
C1_Witness ==
    /\ allTests # <<>>
    /\ redoHistory # <<>>
    /\ Len(Top(redoHistory)) > Len(allTests)
    /\ \E i \in 1..Len(allTests) : allTests[i].testingNum = 1

-----------------------------------------------------------------------------
(* C2: the History Manager snapshots and restores the whole dataset, the
   Import Batch list included: undoing an import removes the batch entry
   the import added, and undoing a remove-import-batch brings the removed
   entry back. *)

RecordsOf(tests, importId) ==
    SelectSeq(tests, LAMBDA t : t.importId = importId)

(* The collection is the top snapshot with the records of the newest batch
   appended: the state an import of that batch leaves. *)
LastImportOnTop ==
    /\ importHistory # <<>>
    /\ undoHistory # <<>>
    /\ LET id == Top(importHistory).id
       IN  /\ RecordsOf(allTests, id) # <<>>
           /\ RecordsOf(Top(undoHistory), id) = <<>>
           /\ Len(allTests) = Len(Top(undoHistory))
                                + Len(RecordsOf(allTests, id))

(* The top snapshot holds records of a batch that the list and the
   collection no longer have: the state a removal of that batch leaves. *)
RemovedBatchOnTop(id) ==
    /\ undoHistory # <<>>
    /\ RecordsOf(Top(undoHistory), id) # <<>>
    /\ RecordsOf(allTests, id) = <<>>
    /\ Len(Top(undoHistory)) = Len(allTests)
                                 + Len(RecordsOf(Top(undoHistory), id))
    /\ \A k \in 1..Len(importHistory) : importHistory[k].id # id

C2_HistoryRestoresImportList ==
    [][UndoDone =>
         /\ LastImportOnTop => importHistory' = Pop(importHistory)
         /\ \A id \in KnownImportIds :
               RemovedBatchOnTop(id) =>
                  \E k \in 1..Len(importHistory') :
                      importHistory'[k].id = id
      ]_vars

-----------------------------------------------------------------------------
(* C3: redo directly after an undo restores the Test Record collection the
   undo replaced and leaves both stacks as they were before the undo. *)
C3_RedoInvertsUndo ==
    [][UndoDone =>
         LET r == redo(allTests', undoHistory', redoHistory')
         IN  /\ r.done
             /\ r.allTests = allTests
             /\ r.undoHistory = undoHistory
             /\ r.redoHistory = redoHistory
      ]_vars

(* An undo has been redone over a non-empty history: the redone state is
   current, its save is in flight, and a snapshot is on the undo stack. *)
C3_Witness ==
    /\ allTests # <<>>
    /\ undoHistory # <<>>
    /\ redoHistory = <<>>
    /\ Len(saveQueue) = 2
    /\ saveQueue[1].awaiter = 0
    /\ saveQueue[2].awaiter = 0
    /\ saveQueue[1].data.tests = Top(undoHistory)
    /\ saveQueue[2].data.tests = allTests

-----------------------------------------------------------------------------
(* C4: the undo stack never holds more than MAX_HISTORY_SIZE entries,
   whether it was pushed onto by a snapshot or by redo. *)
C4_UndoStackBounded == Len(undoHistory) <= MAX_HISTORY_SIZE

(* A redo has just filled the undo stack: its save is the only one in
   flight and nothing is left to redo. *)
C4_Witness ==
    /\ Len(undoHistory) = MAX_HISTORY_SIZE
    /\ redoHistory = <<>>
    /\ Len(saveQueue) = 1
    /\ saveQueue[1].awaiter = 0

-----------------------------------------------------------------------------
(* C5: a snapshot taken while the undo stack is full evicts the oldest
   entry: the stack becomes its former entries 2..20 in order, followed by
   the new snapshot; so 20 undos are then possible, the last of which
   restores the former second entry, and the former first is gone. *)
RECURSIVE UndoTimes(_, _, _, _)
UndoTimes(n, tests, undoH, redoH) ==
    IF n = 1 THEN undo(tests, undoH, redoH)
    ELSE LET r == UndoTimes(n - 1, tests, undoH, redoH)
         IN  IF r.done
             THEN undo(r.allTests, r.undoHistory, r.redoHistory)
             ELSE r

C5_EvictsOldest ==
    [][(MutatingStep /\ Len(undoHistory) = MAX_HISTORY_SIZE) =>
         /\ undoHistory' = Append(Tail(undoHistory), allTests)
         /\ LET r == UndoTimes(MAX_HISTORY_SIZE, allTests', undoHistory',
                               redoHistory')
            IN  /\ r.done
                /\ r.allTests = undoHistory[2]
                /\ ~undo(r.allTests, r.undoHistory, r.redoHistory).done
      ]_vars

(* The stack is full and its oldest entry is no longer the empty initial
   collection: an eviction has taken place. *)
C5_Witness ==
    /\ Len(undoHistory) = MAX_HISTORY_SIZE
    /\ undoHistory[1] # <<>>
    /\ undoHistory[2] = <<>>

-----------------------------------------------------------------------------
(* C6: every snapshot empties the redo stack: after a mutating operation
   that follows an undo, redo finds nothing to redo and changes nothing. *)
C6_SnapshotClearsRedo ==
    [][(MutatingStep /\ redoHistory # <<>>) =>
         LET r == redo(allTests', undoHistory', redoHistory')
         IN  /\ redoHistory' = <<>>
             /\ ~r.done
             /\ r.toast = ToastInfo
             /\ r.allTests = allTests'
             /\ r.undoHistory = undoHistory'
             /\ r.redoHistory = redoHistory'
      ]_vars

(* Clear-all has run right after an undo or redo: both saves are still in
   flight, the snapshot is the state that undo or redo had produced, and
   the redo stack is empty. *)
C6_Witness ==
    /\ redoHistory = <<>>
    /\ Len(saveQueue) = 2
    /\ saveQueue[1].awaiter = 0
    /\ saveQueue[2].awaiter = AwaitClear
    /\ undoHistory # <<>>
    /\ Top(undoHistory) # <<>>
    /\ saveQueue[1].data.tests = Top(undoHistory)

-----------------------------------------------------------------------------
(* C7: undo with an empty undo stack and redo with an empty redo stack
   change nothing (collection, batch list, stacks, data file) and issue no
   save; they only show an informational toast. *)
C7_EmptyStackNoOp ==
    [][((UndoRequested /\ Len(undoHistory) = 0)
          \/ (RedoRequested /\ Len(redoHistory) = 0)) =>
         /\ UNCHANGED <<allTests, importHistory, undoHistory, redoHistory,
                        saveQueue, dataFile>>
         /\ toast' = ToastInfo
      ]_vars

(* Undo or redo was asked for with nothing to undo: the informational
   toast is up while no import is under way and data is loaded. *)
C7_Witness ==
    /\ toast = ToastInfo
    /\ undoHistory = <<>>
    /\ allTests # <<>>
    /\ saveQueue = <<>>
    /\ \A i \in ImportCallIds : importCalls[i].pc = "idle"

-----------------------------------------------------------------------------
(* C8: an import that fails, for whatever reason, leaves the Test Record
   collection, the Import Batch list, both stacks and the persisted
   dataset as they were, and issues no save. *)
C8_FailedImportChangesNothing ==
    [][ImportFailed =>
         UNCHANGED <<allTests, importHistory, undoHistory, redoHistory,
                     saveQueue, dataFile>>
      ]_vars

-----------------------------------------------------------------------------
(* C9: whenever control is back in the event loop, the testingNum values of
   every account are exactly 1..N and are non-decreasing in testingDate. *)
C9_TestingNumContiguous ==
    \A i \in 1..Len(allTests) :
        /\ allTests[i].testingNum \in
              1..AccountSize(allTests, allTests[i].email)
        /\ \A j \in 1..Len(allTests) :
              (i # j /\ SameAccount(allTests[i], allTests[j])) =>
                 /\ allTests[i].testingNum # allTests[j].testingNum
                 /\ (allTests[i].testingNum < allTests[j].testingNum =>
                       DateValue(allTests[i].testingDate)
                         <= DateValue(allTests[j].testingDate))

(* An account holds an earlier-dated record behind a later-dated one, after
   an undo. *)
C9_Witness ==
    /\ redoHistory # <<>>
    /\ \E i \in 1..Len(allTests) : \E j \in (i + 1)..Len(allTests) :
          /\ SameAccount(allTests[i], allTests[j])
          /\ DateValue(allTests[i].testingDate)
               > DateValue(allTests[j].testingDate)

-----------------------------------------------------------------------------
(* recalculateAll as a function: run twice on collections whose derived
   fields hold arbitrary earlier values. *)

StaleDerived ==
    { [testingNum |-> 1, queuePercent |-> <<50, 1>>,
       queueChangePercent |-> RatZero],
      [testingNum |-> 3, queuePercent |-> <<7, 1>>,
       queueChangePercent |-> <<5, 1>>] }

StaleCases ==
    ({500} \X {1000} \X StaleDerived)
      \cup ({1500} \X {2000} \X StaleDerived)
      \cup ({500} \X {Null} \X {x \in StaleDerived : x.testingNum = 3})

RecalcRecords ==
    { [email |-> e, testingDate |-> d, eventName |-> EventE,
       queueNumber |-> q[1], queueAnchor |-> q[2], importId |-> 1,
       testingNum |-> q[3].testingNum, queuePercent |-> q[3].queuePercent,
       queueChangePercent |-> q[3].queueChangePercent] :
      e \in {EmailA, EmailB}, d \in {Jan10, Jan15}, q \in StaleCases }

RecalcInputs == UNION {[1..n -> RecalcRecords] : n \in 0..MaxRecalcLen}

InitRecalc ==
    /\ allTests = <<>>
    /\ importHistory = <<>>
    /\ undoHistory = <<>>
    /\ redoHistory = <<>>
    /\ loadCall = [pc |-> "start", migratedData |-> AbsentFile]
    /\ importCalls = [i \in 1..MaxImportCalls |-> [pc |-> "idle"]]
    /\ confirmModal = NoModal
    /\ saveQueue = <<>>
    /\ dataFile = AbsentFile
    /\ toast = ""
    /\ callArg \in RecalcInputs
    /\ callRet = <<>>

CallRecalculateAll ==
    /\ Len(callRet) < 2
    /\ callRet' = Append(callRet,
                     recalculateAll(IF callRet = <<>> THEN callArg
                                    ELSE callRet[Len(callRet)]))
    /\ UNCHANGED <<allTests, importHistory, undoHistory, redoHistory,
                   loadCall, importCalls, confirmModal, saveQueue, dataFile,
                   toast, callArg>>

NextRecalc == CallRecalculateAll

SpecRecalc == InitRecalc /\ [][NextRecalc]_vars

RawFields(t) ==
    <<t.email, t.testingDate, t.eventName, t.queueNumber, t.queueAnchor,
      t.importId>>

(* C10: recalculateAll is idempotent: a second run on the result of a
   first changes no derived field of any record and leaves the order of
   the collection, which the first run did not change either. *)
C10_RecalculateIdempotent ==
    /\ Len(callRet) >= 1 =>
          /\ Len(callRet[1]) = Len(callArg)
          /\ \A i \in 1..Len(callArg) :
                RawFields(callRet[1][i]) = RawFields(callArg[i])
    /\ Len(callRet) = 2 => callRet[2] = callRet[1]

(* Both runs are done on a collection in which an account has a
   later-dated record before an earlier-dated one, and the first run had
   derived fields to correct. *)
C10_Witness ==
    /\ Len(callRet) = 2
    /\ callRet[1] # callArg
    /\ \E i \in 1..Len(callArg) : \E j \in (i + 1)..Len(callArg) :
          /\ SameAccount(callArg[i], callArg[j])
          /\ DateValue(callArg[i].testingDate)
               > DateValue(callArg[j].testingDate)
          /\ callRet[2][i].testingNum > callRet[2][j].testingNum

-----------------------------------------------------------------------------
(* Calls of single functions: callArg is the call (the function and its
   arguments), callRet the 1-tuple of what it returned. *)

Called(fn) == callArg.fn = fn /\ callRet = <<>>

Returned(fn) == callArg.fn = fn /\ callRet # <<>>

Return(value) ==
    /\ callRet' = <<value>>
    /\ UNCHANGED <<allTests, importHistory, undoHistory, redoHistory,
                   loadCall, importCalls, confirmModal, saveQueue, dataFile,
                   toast, callArg>>

-----------------------------------------------------------------------------
(* getOverallChange on recalculated collections *)

ChangeRecord(e, d, q) ==
    [email |-> e, testingDate |-> d, eventName |-> EventE,
     queueNumber |-> q[1], queueAnchor |-> q[2], importId |-> 1,
     testingNum |-> UndefinedNum, queuePercent |-> UndefinedPct,
     queueChangePercent |-> UndefinedPct]

ChangeRecords ==
    { ChangeRecord(EmailA, d, q) :
        d \in {Jan10, Jan15}, q \in {<<500, 1000>>, <<1500, 2000>>} }
    \cup { ChangeRecord(EmailB, Jan10, <<500, 1000>>) }

ChangeInputs ==
    { [fn |-> "getOverallChange", tests |-> recalculateAll(t), email |-> e] :
      t \in UNION {[1..n -> ChangeRecords] : n \in 0..MaxRecalcLen},
      e \in {EmailA, EmailB} }

CallGetOverallChange ==
    /\ Called("getOverallChange")
    /\ Return(getOverallChange(callArg.tests, callArg.email))

(* The record of the account that recalculation numbered k *)
NumberedRecord(tests, email, k) ==
    tests[CHOOSE i \in 1..Len(tests) :
             tests[i].email = email /\ tests[i].testingNum = k]

(* C11: the overall change of an account is null exactly when the account
   has fewer than 2 records; with n >= 2 records it is the queuePercent of
   the chronologically second-to-last record minus that of the last, hence
   positive exactly when the latest percent is the lower one. *)
C11_OverallChange ==
    Returned("getOverallChange") =>
       LET tests == callArg.tests
           n == AccountSize(tests, callArg.email)
       IN  /\ (callRet[1] = <<>>) <=> (n < 2)
           /\ n >= 2 =>
                 LET prev == NumberedRecord(tests, callArg.email, n - 1)
                     last == NumberedRecord(tests, callArg.email, n)
                 IN  /\ callRet[1] = RatSub(prev.queuePercent,
                                            last.queuePercent)
                     /\ (callRet[1][1] > 0) <=>
                           (~RatLeq(prev.queuePercent, last.queuePercent))

(* The change was computed for an account of three records whose latest
   record is not the last of the collection, and it is positive. *)
C11_Witness ==
    /\ Returned("getOverallChange")
    /\ AccountSize(callArg.tests, callArg.email) = 3
    /\ callArg.tests[Len(callArg.tests)].email = callArg.email
    /\ callArg.tests[Len(callArg.tests)].testingNum = 1
    /\ callRet[1] # <<>>
    /\ callRet[1][1] > 0

-----------------------------------------------------------------------------
(* normalizeDate on date texts.  A call records how its text was put
   together: form "dmy" is first \o sep1 \o second \o sep2 \o third with
   first and second of 1-2 digits and third of 2-4 digits, form "ymd" the
   same with first of 4 digits and second and third of 1-2 digits, form
   "none" any other text, for which the parts are empty. *)

ShortNumbers ==
    { <<"0">>, <<"1">>, <<"2">>, <<"0", "2">>, <<"3">>, <<"0", "4">>, <<"1", "2">>, <<"1", "3">>, <<"2", "9">>, <<"3", "0">>, <<"3", "1">>, <<"3", "2">> }

LastNumbers ==
    { <<"2", "6">>, <<"4", "9">>, <<"5", "0">>,
      <<"9", "9">>, <<"1", "2", "3">>, <<"1", "8", "9", "9">>,
      <<"1", "9", "0", "0">>, <<"2", "0", "2", "3">>, <<"2", "0", "2", "4">>,
      <<"2", "1", "0", "0">>, <<"2", "1", "0", "1">>,
      <<"0", "9", "9">>, <<"0", "0", "2", "6">> }

Years ==
    { <<"1", "8", "9", "9">>, <<"1", "9", "0", "0">>, <<"2", "0", "2", "3">>,
      <<"2", "0", "2", "4">>, <<"2", "0", "2", "6">>, <<"2", "1", "0", "0">>,
      <<"2", "1", "0", "1">> }

SeparatorPairs == {<<"/", "/">>, <<"-", "-">>, <<".", ".">>, <<"/", "-">>}

OtherTexts ==
    { <<>>,
      <<"a", "b", "c">>,
      <<"2", "0", "2", "6", "-", "0", "1", "-", "1", "5", "T">>,
      <<"2", "0", "2", "6", "-", "0", "1">>,
      <<"2", "0", "2", "6", "0", "-", "0", "1", "-", "0", "1">>,
      <<"2", "0", "2", "6", "-", "0", "1", "-", "0", "1", "5">>,
      <<"2", "0", "2", "6", " ", "0", "1", " ", "1", "5">>,
      <<"1", "5", "/", "0", "1", "/", "2", "0", "2", "6", "/">>,
      <<"1", "-", "2", "-", "3">>,
      <<"/", "1", "/", "2", "6">>,
      <<"-", "5", "-", "0", "1", "-", "2", "0", "2", "6">>,
      <<"2", "0", "2", "6">> }

DateCall(typeof, form, first, second, third, text) ==
    [fn |-> "normalizeDate", typeof |-> typeof, form |-> form,
     first |-> first, second |-> second, third |-> third, s |-> text]

DateInputs ==
    { DateCall("string", "dmy", a, b, c,
               a \o <<sp[1]>> \o b \o <<sp[2]>> \o c) :
        a \in ShortNumbers, b \in ShortNumbers, c \in LastNumbers,
        sp \in SeparatorPairs }
    \cup
    { DateCall("string", "ymd", y, m, d,
               y \o <<sp[1]>> \o m \o <<sp[2]>> \o d) :
        y \in Years, m \in ShortNumbers, d \in ShortNumbers,
        sp \in SeparatorPairs }
    \cup { DateCall("string", "none", <<>>, <<>>, <<>>, t) : t \in OtherTexts }
    \cup { DateCall("string", "ymd", <<"2", "0", "2", "6">>, <<"0", "1">>, <<"1", "5">>,
                    <<" ", "2", "0", "2", "6", "-", "0", "1", "-", "1", "5", " ">>),
           DateCall("string", "dmy", <<"1", "3">>, <<"0", "2">>, <<"2", "6">>,
                    <<" ", "1", "3", ".", "0", "2", ".", "2", "6">>) }
    \cup { DateCall(ty, "none", <<>>, <<>>, <<>>, <<>>) :
             ty \in {"number", "undefined", "object"} }

(* normalizeDate(value), and then normalizeDate of what it returned *)
CallNormalizeDate ==
    /\ callArg.fn = "normalizeDate"
    /\ Len(callRet) < 2
    /\ callRet' = Append(callRet,
                     IF callRet = <<>> THEN normalizeDateOfValue(callArg)
                     ELSE normalizeDate(callRet[1]))
    /\ UNCHANGED <<allTests, importHistory, undoHistory, redoHistory,
                   loadCall, importCalls, confirmModal, saveQueue, dataFile,
                   toast, callArg>>

IsCanonicalForm(d) ==
    /\ Len(d) = 10
    /\ d[5] = "-" /\ d[8] = "-"
    /\ \A i \in {1, 2, 3, 4, 6, 7, 9, 10} : d[i] \in Digits

(* C12: every non-null result of the normalizer has the form YYYY-MM-DD
   with zero-padded month and day, and is a fixed point: normalizing it
   again returns it unchanged. *)
C12_NormalizeFixedPoint ==
    (callArg.fn = "normalizeDate" /\ Len(callRet) >= 1
       /\ callRet[1] # <<>>) =>
          /\ IsCanonicalForm(callRet[1])
          /\ Len(callRet) = 2 => callRet[2] = callRet[1]

(* A date written with one-digit day and month has been normalized to a
   padded one, and that result normalized again. *)
C12_Witness ==
    /\ callArg.fn = "normalizeDate"
    /\ callArg.s = <<"2", "/", "3", "/", "2", "6">>
    /\ callRet = <<<<"2", "0", "2", "6", "-", "0", "2", "-", "0", "3">>, <<"2", "0", "2", "6", "-", "0", "2", "-", "0", "3">>>>

(* A real calendar date within the accepted ranges *)
IsRealDate(year, month, day) ==
    /\ year >= 1900 /\ year <= 2100
    /\ month >= 1 /\ month <= 12
    /\ day >= 1 /\ day <= DaysInMonth(year, month)

CanonicalDate(year, month, day) ==
    YearString(year) \o <<"-">> \o PadStart2(month) \o <<"-">>
       \o PadStart2(day)

CanonicalOrNull(year, month, day) ==
    IF IsRealDate(year, month, day) THEN CanonicalDate(year, month, day)
    ELSE <<>>

(* The year a two-digit number stands for *)
TwoDigitYear(c) == IF c < 50 THEN 2000 + c ELSE 1900 + c

(* Day first only when the first number cannot be a month and the second
   can; month first in every other case. *)
ResolvedDmy(a, b, year) ==
    IF a > 12 /\ b <= 12 THEN CanonicalOrNull(year, b, a)
    ELSE CanonicalOrNull(year, a, b)

(* C13: for a date A-B-C that is not year-first, with A and B of 1-2 digits
   and C of 2 or 4 digits, C is the year (a 2-digit C below 50 is 2000+C,
   otherwise 1900+C); A is the day and B the month if A > 12 and B <= 12,
   and in every other case A is the month and B the day; the result is the
   canonical text of that triple, or null when it is no valid date (as
   when both A and B exceed 12). *)
C13_DayMonthResolution ==
    (callArg.fn = "normalizeDate" /\ callArg.form = "dmy"
       /\ Len(callArg.third) \in {2, 4} /\ Len(callRet) >= 1) =>
          callRet[1] =
             ResolvedDmy(DigitsValue(callArg.first),
                         DigitsValue(callArg.second),
                         IF Len(callArg.third) = 2
                         THEN TwoDigitYear(DigitsValue(callArg.third))
                         ELSE DigitsValue(callArg.third))

(* C14: the normalizer returns null for a value that is not a string, for a
   text of neither accepted form, and for a text whose resolved triple is
   out of range or no real calendar date; it returns a date for every text
   whose resolved triple is a real calendar date within the ranges.  The
   triple is the one the normalizer resolves: year first as written,
   otherwise the third number as year, taken for a two-digit year when it
   is below 100. *)
C14_NullExactlyWhenInvalid ==
    (callArg.fn = "normalizeDate" /\ Len(callRet) >= 1) =>
       ((callRet[1] # <<>>) <=>
          /\ callArg.typeof = "string"
          /\ callArg.form # "none"
          /\ IF callArg.form = "ymd"
             THEN IsRealDate(DigitsValue(callArg.first),
                             DigitsValue(callArg.second),
                             DigitsValue(callArg.third))
             ELSE ResolvedDmy(DigitsValue(callArg.first),
                              DigitsValue(callArg.second),
                              IF DigitsValue(callArg.third) < 100
                              THEN TwoDigitYear(DigitsValue(callArg.third))
                              ELSE DigitsValue(callArg.third)) # <<>>)

(* 29 February has been accepted in a leap year and refused in the year
   before. *)
C14_Witness ==
    /\ callArg.fn = "normalizeDate"
    /\ Len(callRet) >= 1
    /\ \/ callArg.s = <<"2", "0", "2", "4", "-", "0", "2", "-", "2", "9">> /\ callRet[1] = <<"2", "0", "2", "4", "-", "0", "2", "-", "2", "9">>
       \/ callArg.s = <<"2", "0", "2", "3", "-", "0", "2", "-", "2", "9">> /\ callRet[1] = <<>>

-----------------------------------------------------------------------------
(* What a record is, apart from the fields recalculateAll derives *)
StoredFields(t) ==
    [email |-> t.email, testingDate |-> t.testingDate,
     eventName |-> t.eventName, queueNumber |-> t.queueNumber,
     queueAnchor |-> t.queueAnchor, importId |-> t.importId]

StoredFieldsOf(tests) == [k \in 1..Len(tests) |-> StoredFields(tests[k])]

HasImport(imports, importId) ==
    \E k \in 1..Len(imports) : imports[k].id = importId

(* The confirmed removal of the batch the modal names *)
RemoveConfirmed == ConfirmClicked /\ confirmModal.action = "remove"

(* removeImport called with an id that is not in the list *)
RemoveUnknownRequested ==
    \E id \in KnownImportIds :
       ~HasImport(importHistory, id) /\ RemoveImportRequested(id)

(* C19: removing a batch removes exactly the records whose importId is the
   batch's id and exactly the batch's entry; every other record, whatever
   its importId, and every other entry is kept in its relative order;
   removing an id that is not in the list changes nothing. *)
C19_RemoveImportExact ==
    [][/\ RemoveConfirmed =>
            /\ HasImport(importHistory, confirmModal.importId)
            /\ StoredFieldsOf(allTests') =
                  SelectSeq(StoredFieldsOf(allTests),
                     LAMBDA t : t.importId # confirmModal.importId)
            /\ importHistory' =
                  SelectSeq(importHistory,
                     LAMBDA b : b.id # confirmModal.importId)
       /\ RemoveUnknownRequested => UNCHANGED vars
      ]_vars

(* One of two batches has been removed: its records are in the snapshot
   on the undo stack only, the records and the entry of the other batch
   remain. *)
C19_Witness ==
    /\ allTests # <<>>
    /\ redoHistory = <<>>
    /\ undoHistory # <<>>
    /\ Len(Top(undoHistory)) > Len(allTests)
    /\ Len(importHistory) = 1
    /\ \A i \in 1..Len(allTests) :
          allTests[i].importId = importHistory[1].id
    /\ \E k \in 1..Len(Top(undoHistory)) :
          Top(undoHistory)[k].importId \notin
             {NoImportId, importHistory[1].id}

-----------------------------------------------------------------------------
(* Calls of validateTestData *)

LongName(n) == [i \in 1..n |-> "x"]

CandidateEmails ==
    { EmailA, <<"a", "b">>, <<"a", "@", "b">>,
      <<"a", " ", "@", "b", ".", "c">> }

(* testingDate as parseCSV stores it: the normalized date, or the raw text
   when it does not normalize *)
CandidateDates == { Jan10, <<"1", "3", "/", "1", "3", "/", "2", "0", "2", "6">> }

CandidateNames == { <<>>, EventE, LongName(200), LongName(201) }

CandidateNumbers == { NaN, -1, 0, 500, MaxQueueValue, MaxQueueValue + 1 }

CandidateAnchors ==
    { Null, NaN, -1, 0, 100, 1000, MaxQueueValue, MaxQueueValue + 1 }

Candidate(email, date, name, number, anchor) ==
    [email |-> email, testingDate |-> date, eventName |-> name,
     queueNumber |-> number, queueAnchor |-> anchor,
     importId |-> NoImportId, testingNum |-> UndefinedNum,
     queuePercent |-> UndefinedPct, queueChangePercent |-> UndefinedPct]

ValidateInputs ==
    { [fn |-> "validateTestData",
       test |-> Candidate(e, d, n, q, a), rowIndex |-> 2] :
         e \in CandidateEmails, d \in CandidateDates, n \in CandidateNames,
         q \in CandidateNumbers, a \in CandidateAnchors }

CallValidateTestData ==
    /\ Called("validateTestData")
    /\ Return(validateTestData(callArg.test, callArg.rowIndex))

IsIntegerUpToMax(x) == x \in 0..MaxQueueValue

(* The checks a candidate violates, each named by the messages that report
   it *)
ViolatedChecks(test) ==
    { check \in
        { {"Invalid email format"},
          {"Invalid date"},
          {"Event name cannot be empty", "Event name too long"},
          {"Invalid queue number", "Queue number too large"},
          {"Invalid queue anchor", "Queue anchor too large"},
          {"Queue anchor cannot be less than queue number"} } :
        \/ "Invalid email format" \in check /\ ~isValidEmail(test.email)
        \/ "Invalid date" \in check /\ normalizeDate(test.testingDate) = <<>>
        \/ "Event name too long" \in check
              /\ Len(test.eventName) \notin 1..200
        \/ "Invalid queue number" \in check
              /\ ~IsIntegerUpToMax(test.queueNumber)
        \/ "Invalid queue anchor" \in check
              /\ test.queueAnchor # Null
              /\ ~IsIntegerUpToMax(test.queueAnchor)
        \/ "Queue anchor cannot be less than queue number" \in check
              /\ test.queueAnchor # Null
              /\ ~isNaN(test.queueAnchor) /\ ~isNaN(test.queueNumber)
              /\ test.queueAnchor < test.queueNumber }

ErrorsMatchChecks(test, rowIndex, errors) ==
    /\ (errors = <<>>) <=>
          /\ isValidEmail(test.email)
          /\ normalizeDate(test.testingDate) # <<>>
          /\ Len(test.eventName) \in 1..200
          /\ IsIntegerUpToMax(test.queueNumber)
          /\ test.queueAnchor # Null =>
                /\ IsIntegerUpToMax(test.queueAnchor)
                /\ test.queueAnchor >= test.queueNumber
    /\ Len(errors) = Cardinality(ViolatedChecks(test))
    /\ \A check \in ViolatedChecks(test) :
          \E k \in 1..Len(errors) :
             errors[k].message \in check /\ errors[k].row = rowIndex
    /\ (/\ test.queueAnchor # Null
        /\ ~isNaN(test.queueAnchor) /\ ~isNaN(test.queueNumber)
        /\ test.queueAnchor < test.queueNumber) =>
          \E k \in 1..Len(errors) :
             errors[k].message =
                "Queue anchor cannot be less than queue number"

(* C15: validateTestData evaluates every check: the result is empty exactly
   when the email has the shape local@domain.tld, the date normalizes, the
   event name has 1..200 characters, queueNumber is an integer in
   0..10,000,000 and a present queueAnchor is an integer in 0..10,000,000
   not below queueNumber; a candidate violating several checks gets one
   error for each, and a present anchor below the number always gets the
   anchor-less-than-number error. *)
C15_ValidatorReportsEveryCheck ==
    Returned("validateTestData") =>
       ErrorsMatchChecks(callArg.test, callArg.rowIndex, callRet[1])

(* A candidate violating all six checks has got six errors. *)
C15_Witness ==
    /\ Returned("validateTestData")
    /\ Cardinality(ViolatedChecks(callArg.test)) = 6
    /\ Len(callRet[1]) = 6
    /\ callRet[1][6].message =
          "Queue anchor cannot be less than queue number"

-----------------------------------------------------------------------------
(* Calls of parseCSV *)

(* Two rows that pass validation, one with an empty required cell, one
   with an anchor below its number, and one whose five cells are all
   wrong (the event name is blank but not empty). *)
CsvRowKinds ==
    { Row(EmailA, Jan15US, EventE, Text500, Text1000),
      Row(EmailB, Jan10, EventE, Text1500, <<>>),
      Row(EmailA, <<>>, EventE, Text500, Text1000),
      Row(EmailA, Jan10, EventE, Text500, Text100),
      Row(<<"a", "b">>, <<"1", "3", "/", "1", "3", "/", "2", "0", "2", "6">>, <<" ">>, <<"x">>, <<"-", "1">>) }

CsvHeaders ==
    { AllColumns, AllColumns \ {"Queue Anchor"},
      AllColumns \ {"Queue Number"}, {"Email", "Queue Anchor"} }

Cell(fields, column, text) == IF column \in fields THEN text ELSE <<>>

(* A row as Papa.parse builds it with header: true: one property for each
   field of the header *)
ParsedRow(fields, row) ==
    Row(Cell(fields, "Email", row.Email),
        Cell(fields, "Testing Date", row.TestingDate),
        Cell(fields, "Event Name", row.EventName),
        Cell(fields, "Queue Number", row.QueueNumber),
        Cell(fields, "Queue Anchor", row.QueueAnchor))

CsvTexts ==
    UNION { [1..n -> CsvRowKinds] : n \in 0..MaxCsvRows }

ParseInputs ==
    { [fn |-> "parseCSV",
       parsed |-> [fields |-> fields,
                   data |-> [k \in 1..Len(rows) |->
                               ParsedRow(fields, rows[k])]]] :
         fields \in CsvHeaders, rows \in CsvTexts }

CallParseCSV ==
    /\ Called("parseCSV")
    /\ Return(parseCSV(callArg.parsed))

HeaderIsComplete(fields) ==
    {"Email", "Testing Date", "Event Name", "Queue Number"} \subseteq fields

(* The descriptors of the rows 1..n of the data that are not skipped, in
   the order of the rows; the header is row 1 of the text *)
RECURSIVE ErrorsOfRows(_, _)
ErrorsOfRows(data, n) ==
    IF n = 0 THEN <<>>
    ELSE ErrorsOfRows(data, n - 1)
         \o (IF RowIsIncomplete(data[n]) THEN <<>>
             ELSE validateTestData(RowToTest(data[n]), n + 1))

NonSkippedRows(data) == SelectSeq(data, LAMBDA row : ~RowIsIncomplete(row))

CarriesFirstTen(outcome, errors) ==
    /\ outcome.error = "validation error(s)"
    /\ outcome.total = Len(errors)
    /\ outcome.shown =
          SubSeq(errors, 1, IF Len(errors) < 10 THEN Len(errors) ELSE 10)
    /\ outcome.remaining > 0 <=> Len(errors) > 10
    /\ Len(errors) > 10 => outcome.remaining = Len(errors) - 10

(* C16: with a complete header, when a row that is not skipped fails
   validation parseCSV throws the validation error whatever the other rows
   are; the error carries the first min(10, k) descriptors in the order of
   the rows and, exactly when k > 10, the number k - 10 of descriptors left
   out, k being the number of validation errors of all rows. *)
C16_ValidationErrorCarriesTen ==
    (/\ Returned("parseCSV")
     /\ HeaderIsComplete(callArg.parsed.fields)
     /\ ErrorsOfRows(callArg.parsed.data, Len(callArg.parsed.data)) # <<>>) =>
        CarriesFirstTen(callRet[1],
           ErrorsOfRows(callArg.parsed.data, Len(callArg.parsed.data)))

(* Eleven errors beside a valid row: ten are carried, one is counted. *)
C16_Witness ==
    /\ Returned("parseCSV")
    /\ \E k \in 1..Len(callArg.parsed.data) :
          /\ ~RowIsIncomplete(callArg.parsed.data[k])
          /\ validateTestData(RowToTest(callArg.parsed.data[k]), k + 1) = <<>>
    /\ callRet[1].error = "validation error(s)"
    /\ callRet[1].total = 11
    /\ Len(callRet[1].shown) = 10
    /\ callRet[1].remaining = 1

Classified(fields, data, outcome) ==
    IF ~HeaderIsComplete(fields)
    THEN outcome.error = "Missing required column"
    ELSE /\ outcome.error = "No valid data rows found in CSV" <=>
              /\ ErrorsOfRows(data, Len(data)) = <<>>
              /\ NonSkippedRows(data) = <<>>
         /\ outcome.error = "none" <=>
              /\ ErrorsOfRows(data, Len(data)) = <<>>
              /\ NonSkippedRows(data) # <<>>
         /\ outcome.error = "none" =>
              outcome.tests =
                 [k \in 1..Len(NonSkippedRows(data)) |->
                     RowToTest(NonSkippedRows(data)[k])]
         /\ \A k \in 1..Len(outcome.shown) :
              ~RowIsIncomplete(data[outcome.shown[k].row - 1])

(* C17: parseCSV classifies in a fixed order: a header without one of
   Email, Testing Date, Event Name, Queue Number gives the missing-column
   error whatever the rows hold; otherwise rows with an empty required cell
   are skipped and get no error descriptor; the no-valid-rows error is
   thrown exactly when the header is complete, no row that is not skipped
   fails validation and no row is left; otherwise the result is the list of
   all rows that are not skipped, in the order of the text. *)
C17_IngestClassification ==
    Returned("parseCSV") =>
       Classified(callArg.parsed.fields, callArg.parsed.data, callRet[1])

(* A text whose rows are all skipped has given the no-valid-rows error,
   and a text with a skipped row between two valid ones has given the two
   valid rows. *)
C17_Witness ==
    /\ Returned("parseCSV")
    /\ HeaderIsComplete(callArg.parsed.fields)
    /\ Len(callArg.parsed.data) = 3
    /\ RowIsIncomplete(callArg.parsed.data[2])
    /\ \/ /\ callRet[1].error = "No valid data rows found in CSV"
          /\ NonSkippedRows(callArg.parsed.data) = <<>>
       \/ /\ callRet[1].error = "none"
          /\ Len(callRet[1].tests) = 2
          /\ callRet[1].tests[1].email = EmailB
          /\ callRet[1].tests[2].email = EmailA

-----------------------------------------------------------------------------
(* Calls of processNewTests *)

EventF == <<"F">>

BatchRecord(event, number, anchor) ==
    Candidate(EmailA, Jan10, event, number, anchor)

(* Records as parseCSV returns them: the anchor null or not below the
   number *)
BatchRecords ==
    { BatchRecord(EventE, 500, Null), BatchRecord(EventE, 1000, Null),
      BatchRecord(EventE, 1500, Null), BatchRecord(EventE, 1500, 3000),
      BatchRecord(EventF, 0, Null), BatchRecord(EventF, 2500, 7000),
      BatchRecord(EventConstructor, 500, Null) }

BatchInputs ==
    { [fn |-> "processNewTests", newTests |-> batch] :
         batch \in UNION { [1..n -> BatchRecords] : n \in 1..MaxBatchLen } }

CallProcessNewTests ==
    /\ Called("processNewTests")
    /\ Return(processNewTests(callArg.newTests))

(* The queue numbers of the anchor-less records of one event *)
AnchorlessNumbersOf(newTests, event) ==
    { newTests[i].queueNumber :
        i \in { j \in 1..Len(newTests) :
                  /\ newTests[j].eventName = event
                  /\ newTests[j].queueAnchor = Null } }

MaxOf(numbers) == CHOOSE m \in numbers : \A x \in numbers : x <= m

(* The least multiple of 1000 that is not below m *)
RoundedUp(m) == m + ((1000 - (m % 1000)) % 1000)

AnchorlessEventsOf(newTests) ==
    { newTests[i].eventName :
        i \in { j \in 1..Len(newTests) : newTests[j].queueAnchor = Null } }

Resolved(newTests, result) ==
    /\ ~result.threw
    /\ Len(result.appended) = Len(newTests)
    /\ \A i \in 1..Len(newTests) :
          result.appended[i] =
             IF newTests[i].queueAnchor = Null
             THEN [newTests[i] EXCEPT !.queueAnchor =
                     RoundedUp(MaxOf(AnchorlessNumbersOf(newTests,
                                        newTests[i].eventName)))]
             ELSE newTests[i]
    /\ \A event \in AnchorlessEventsOf(newTests) :
          Cardinality({ k \in 1..Len(result.warnings) :
                          result.warnings[k].event = event }) = 1
    /\ \A k \in 1..Len(result.warnings) :
          result.warnings[k].event \in AnchorlessEventsOf(newTests)

(* C18: for every batch, processNewTests gives every record whose anchor
   was null the value ceil(m / 1000) * 1000, m being the largest queue
   number among the anchor-less records of the same event in the batch
   (records with an explicit anchor do not count and keep their anchor),
   and returns exactly one warning for each event that had an anchor-less
   record and none for any other event. *)
C18_AnchorInference ==
    Returned("processNewTests") => Resolved(callArg.newTests, callRet[1])

-----------------------------------------------------------------------------
(* Calls of migrateData *)

StoredBatch ==
    [id |-> StoredImportId, filename |-> "old.csv",
     date |-> StoredImportId, testCount |-> 1]

(* What JSON.parse can give loadData: a bare array, an object without a
   version field (version 0), with and without an imports field, and an
   object of the current version *)
LoadedData(kind, version, tests, imports, hasImports) ==
    [kind |-> kind, version |-> version, tests |-> tests,
     imports |-> imports, hasImports |-> hasImports]

LoadedValues ==
    { LoadedData("array", 0, tests, <<>>, FALSE) :
        tests \in { <<>>, <<StoredTest(EmailA, Jan20, 500, 2000,
                                       NoImportId)>> } }
    \cup { LoadedData("object", version, tests, <<>>, FALSE) :
             version \in {0, CURRENT_SCHEMA_VERSION},
             tests \in { <<>>, <<StoredTest(EmailA, Jan20, 500, 2000,
                                            NoImportId)>> } }
    \cup { LoadedData("object", version, tests, <<StoredBatch>>, TRUE) :
             version \in {0, CURRENT_SCHEMA_VERSION},
             tests \in { <<>>, <<StoredTest(EmailA, Jan20, 500, 2000,
                                            StoredImportId)>> } }

MigrateInputs == { [fn |-> "migrateData", data |-> d] : d \in LoadedValues }

CallMigrateData ==
    /\ Called("migrateData")
    /\ Return(migrateData(callArg.data))

(* C20: data loaded without a version field gives this dataset: an array
   becomes the tests, with an empty imports list; of any other value (an
   object of an earlier format) the tests are kept, and the imports list
   is added only if the object has none. *)
C20_LegacyMigration ==
    (Returned("migrateData") /\ callArg.data.version = 0) =>
       /\ callRet[1].tests = callArg.data.tests
       /\ callRet[1].imports =
             IF callArg.data.kind = "array" \/ ~callArg.data.hasImports
             THEN <<>>
             ELSE callArg.data.imports

-----------------------------------------------------------------------------
(* loadData resumes from its await of the re-save and installs the
   migrated data *)
LoadResaved == loadCall.pc = "resave" /\ loadCall'.pc = "ready"

(* C21: when loadData migrates data of an earlier schema version, its
   re-save persists the migrated dataset: once loadData has completed, the
   persisted payload has version 1 and its tests and imports are the
   migrated tests and imports now in memory. *)
C21_ResavePersistsMigrated ==
    [][LoadResaved =>
         /\ dataFile'.version = CURRENT_SCHEMA_VERSION
         /\ StoredFieldsOf(dataFile'.tests) = StoredFieldsOf(allTests')
         /\ dataFile'.imports = importHistory'
      ]_vars

-----------------------------------------------------------------------------
(* Calls of renderTable *)

TableFilters ==
    {"all", "instants", "juice", "excellent", "improving", "declining"}

TableInput(t, f, d) ==
    [fn |-> "renderTable", tests |-> recalculateAll(t),
     currentFilter |-> f, direction |-> d]

(* Every filter with the initial direction of currentSort, and the
   unfiltered table in ascending order as well *)
TableInputs ==
    { TableInput(t, f, "desc") :
        t \in UNION {[1..n -> ChangeRecords] : n \in 0..MaxRecalcLen},
        f \in TableFilters }
      \cup
    { TableInput(t, "all", "asc") :
        t \in UNION {[1..n -> ChangeRecords] : n \in 0..MaxRecalcLen} }

CallRenderTable ==
    /\ Called("renderTable")
    /\ Return(renderTable(callArg.tests, callArg.currentFilter,
                          callArg.direction))

AccountsOf(tests) == { tests[i].email : i \in 1..Len(tests) }

Listed(rows, email) == \E k \in 1..Len(rows) : rows[k].email = email

(* The overall change of an account by the numbering of recalculation:
   the percent of the record numbered N - 1 minus that of the record
   numbered N; <<>> below two records *)
ChangeByNumber(tests, email) ==
    IF AccountSize(tests, email) < 2 THEN <<>>
    ELSE RatSub(NumberedRecord(tests, email,
                   AccountSize(tests, email) - 1).queuePercent,
                NumberedRecord(tests, email,
                   AccountSize(tests, email)).queuePercent)

IsPositive(change) == change # <<>> /\ change[1] > 0
IsNegative(change) == change # <<>> /\ change[1] < 0

OrderKey(change) == IF change = <<>> THEN <<0, 1>> ELSE change

(* C22: an account is in the improving list exactly when its overall
   change is not null and above 0, and in the declining list exactly when
   it is not null and below 0; an account with fewer than 2 records or
   with change 0 is in neither, no account is in both, and in the order by
   change the null counts as 0. *)
C22_ImprovingDecliningLists ==
    Returned("renderTable") =>
       /\ \A email \in AccountsOf(callArg.tests) :
            /\ callArg.currentFilter = "improving" =>
                 (Listed(callRet[1], email) <=>
                    IsPositive(ChangeByNumber(callArg.tests, email)))
            /\ callArg.currentFilter = "declining" =>
                 (Listed(callRet[1], email) <=>
                    IsNegative(ChangeByNumber(callArg.tests, email)))
            /\ ~(/\ Listed(getTableData(callArg.tests, "improving"), email)
                 /\ Listed(getTableData(callArg.tests, "declining"), email))
       /\ \A k \in 1..(Len(callRet[1]) - 1) :
            IF callArg.direction = "asc"
            THEN RatLeq(OrderKey(ChangeByNumber(callArg.tests,
                                    callRet[1][k].email)),
                        OrderKey(ChangeByNumber(callArg.tests,
                                    callRet[1][k + 1].email)))
            ELSE RatLeq(OrderKey(ChangeByNumber(callArg.tests,
                                    callRet[1][k + 1].email)),
                        OrderKey(ChangeByNumber(callArg.tests,
                                    callRet[1][k].email)))

(* Of two accounts, the one with a single record is left out of the
   improving list and the one whose latest percent is lower is in it. *)
C22_Witness ==
    /\ Returned("renderTable")
    /\ callArg.currentFilter = "improving"
    /\ Cardinality(AccountsOf(callArg.tests)) = 2
    /\ Len(callRet[1]) = 1
    /\ AccountSize(callArg.tests, callRet[1][1].email) = 2
    /\ \E email \in AccountsOf(callArg.tests) :
          AccountSize(callArg.tests, email) = 1

-----------------------------------------------------------------------------
(* Interleaved imports: a first run (no data file) or a file of the first
   version holding a record without anchor, two calls of importCSV that
   can be in flight together, three CSV files, and every other operation at
   any suspension point. *)

LegacyRecord ==
    [email |-> EmailA, testingDate |-> Jan20, eventName |-> EventE,
     queueNumber |-> 500, queueAnchor |-> Null, importId |-> NoImportId,
     testingNum |-> 1, queuePercent |-> RatZero,
     queueChangePercent |-> RatZero]

InterleavedDataFiles ==
    { AbsentFile,
      [kind |-> "array", version |-> 0, tests |-> <<LegacyRecord>>,
       imports |-> <<>>, hasImports |-> FALSE] }

InitInterleaved ==
    /\ allTests = <<>>
    /\ importHistory = <<>>
    /\ undoHistory = <<>>
    /\ redoHistory = <<>>
    /\ loadCall = [pc |-> "start", migratedData |-> AbsentFile]
    /\ importCalls = [i \in 1..MaxInterleavedImports |-> [pc |-> "idle"]]
    /\ confirmModal = NoModal
    /\ saveQueue = <<>>
    /\ dataFile \in InterleavedDataFiles
    /\ toast = ""
    /\ callArg = <<>>
    /\ callRet = <<>>

(* one.csv and two.csv *)
InterleavedFiles == {1, 2}

(* A CSV file at the limits of validateTestData: the queue number 0
   without anchor and with the anchor 0, and the largest queue number
   without anchor *)
EdgeCsvFile ==
    CsvFile("edge.csv", TRUE, AllColumns,
            <<Row(EmailA, Jan10, EventE, <<"0">>, <<>>),
              Row(EmailB, Jan10, EventF,
                  <<"1","0","0","0","0","0","0","0">>, <<>>),
              Row(EmailA, Jan15, EventE, <<"0">>, <<"0">>)>>)

(* api.readCsvFile answers with edge.csv *)
ReadEdgeFileDone(i) ==
    /\ importCalls[i].pc = "read"
    /\ Imported(i, importCSV(i, EdgeCsvFile, allTests,
                             importHistory, undoHistory, redoHistory))
    /\ UNCHANGED <<loadCall, confirmModal, dataFile,
                   callArg, callRet>>

NextInterleaved ==
    \/ LoadData
    \/ SaveDataDone
    \/ (CanSave /\ UndoRequested)
    \/ (CanSave /\ RedoRequested)
    \/ (HistoryBelow(MaxUndoDepth) /\ ClearAllDataRequested)
    \/ (\E id \in ImportCallIds : RemoveImportRequested(id))
    \/ CloseConfirmModal
    \/ (/\ CanSave
        /\ HistoryBelow(MaxUndoDepth)
        /\ ConfirmClicked)
    \/ (\E i \in ImportCallIds : ImportRequested(i))
    \/ (\E i \in ImportCallIds : SelectCsvFileDone(i, FALSE))
    \/ (\E i \in ImportCallIds : \E f \in InterleavedFiles :
           CanSave /\ HistoryBelow(MaxUndoDepth) /\ ReadCsvFileDone(i, f))
    \/ (\E i \in ImportCallIds :
           CanSave /\ HistoryBelow(MaxUndoDepth) /\ ReadEdgeFileDone(i))

SpecInterleaved == InitInterleaved /\ [][NextInterleaved]_vars

(* Call i of importCSV resumes from its await of api.readCsvFile and runs
   to its await of saveData *)
ImportStep(i) ==
    /\ importCalls[i].pc = "read"
    /\ importCalls'[i].pc = "save"

(* C23: with import, undo, redo, clear-all and removal interleaved at the
   suspension points of another import, the resumed import does snapshot,
   anchor resolution, append, batch entry and recalculation in one step:
   the snapshot it pushes is the collection as it is right before its own
   records are appended, so an undo right after the step removes exactly
   the records of this import. *)
C23_ImportStepIsAtomic ==
    [][\A i \in ImportCallIds :
         ImportStep(i) =>
           /\ undoHistory' # <<>>
           /\ Top(undoHistory') = allTests
           /\ Len(allTests') > Len(allTests)
           /\ StoredFieldsOf(SubSeq(allTests', 1, Len(allTests)))
                 = StoredFieldsOf(allTests)
           /\ \A k \in 1..Len(allTests') :
                 (allTests'[k].importId = i) <=> (k > Len(allTests))
           /\ importHistory' =
                 Append(importHistory,
                    [id |-> i, filename |-> Top(importHistory').filename,
                     date |-> i,
                     testCount |-> Len(allTests') - Len(allTests)])
           /\ undo(allTests', undoHistory', redoHistory').done
           /\ undo(allTests', undoHistory', redoHistory').allTests = allTests
      ]_vars

(* The second call was started while the first awaited its file, and the
   first has resumed after the second: both batches are in, the second
   first. *)
C23_Witness ==
    /\ Len(importHistory) = 2
    /\ importHistory[1].id = 2
    /\ importHistory[2].id = 1
    /\ Len(undoHistory) = 2
    /\ \E k \in 1..Len(allTests) : allTests[k].importId = 1
    /\ \E k \in 1..Len(allTests) : allTests[k].importId = 2

-----------------------------------------------------------------------------
(* Calls of recalculateAll on collections that hold records without
   anchor, with anchor 0 and with equal dates *)

NumberedInput(email, date, number, anchor) ==
    [email |-> email, testingDate |-> date, eventName |-> EventE,
     queueNumber |-> number, queueAnchor |-> anchor, importId |-> 1,
     testingNum |-> 3, queuePercent |-> <<7, 1>>,
     queueChangePercent |-> <<5, 1>>]

NumberedInputs ==
    { NumberedInput(EmailA, d, q[1], q[2]) :
        d \in {Jan10, Jan15},
        q \in {<<1500, 2000>>, <<500, Null>>, <<0, 0>>} }
      \cup { NumberedInput(EmailB, Jan10, 500, 1000) }

RecalculateInputs ==
    { [fn |-> "recalculateAll", tests |-> t] :
        t \in UNION {[1..n -> NumberedInputs] : n \in 0..MaxRecalcLen} }

CallRecalculate ==
    /\ Called("recalculateAll")
    /\ Return(recalculateAll(callArg.tests))

IsNumber(p) == p[2] > 0

(* p = x / y * 100 *)
IsPercentOf(p, x, y) == p[1] * y = x * 100 * p[2]

(* c = p - q *)
IsDifference(c, p, q) ==
    c[1] * p[2] * q[2] = (p[1] * q[2] - q[1] * p[2]) * c[2]

PercentAsStated(t) ==
    /\ IsNumber(t.queuePercent)
    /\ (t.queueAnchor # Null /\ t.queueAnchor > 0) =>
          IsPercentOf(t.queuePercent, t.queueNumber, t.queueAnchor)
    /\ (t.queueAnchor = Null \/ t.queueAnchor = 0) => t.queuePercent[1] = 0

ChangeAsStated(tests, t) ==
    /\ IsNumber(t.queueChangePercent)
    /\ IF t.testingNum = 1
       THEN t.queueChangePercent[1] = 0
       ELSE \E i \in 1..Len(tests) :
               /\ tests[i].email = t.email
               /\ tests[i].testingNum = t.testingNum - 1
               /\ IsDifference(t.queueChangePercent, t.queuePercent,
                               tests[i].queuePercent)

(* C24: after recalculation every record has a numeric queuePercent, equal
   to queueNumber / queueAnchor * 100 when queueAnchor > 0 and to 0 when
   queueAnchor is null or 0, and a queueChangePercent equal to its
   queuePercent minus that of the record with the next lower testingNum of
   the account, or 0 for the record numbered 1. *)
C24_PercentAndChange ==
    Returned("recalculateAll") =>
       \A i \in 1..Len(callRet[1]) :
          /\ PercentAsStated(callRet[1][i])
          /\ ChangeAsStated(callRet[1], callRet[1][i])

(* An account holds a record without anchor, one with anchor 0 and one
   with an anchor above 0, numbered 1, 2, 3 in some order. *)
C24_Witness ==
    /\ Returned("recalculateAll")
    /\ Len(callRet[1]) = 3
    /\ \A i \in 1..3 : callRet[1][i].email = EmailA
    /\ \E i \in 1..3 : callRet[1][i].queueAnchor = Null
    /\ \E i \in 1..3 : callRet[1][i].queueAnchor = 0
    /\ \E i \in 1..3 :
          /\ callRet[1][i].queueAnchor # Null
          /\ callRet[1][i].queueAnchor > 0
          /\ callRet[1][i].testingNum = 2
          /\ callRet[1][i].queueChangePercent[1] > 0

-----------------------------------------------------------------------------
(* Two records of one account with the same date *)
Tied(t, u) == SameAccount(t, u) /\ t.testingDate = u.testingDate

(* C25: within an account, records with equal testingDate are numbered in
   the order in which they stand in the collection, and this holds after
   every later recalculation, those after undo and redo included. *)
C25_TiesInCollectionOrder ==
    \A i \in 1..Len(allTests) : \A j \in (i + 1)..Len(allTests) :
        Tied(allTests[i], allTests[j]) =>
           allTests[i].testingNum < allTests[j].testingNum

(* A redo has brought back a collection in which two imports of the same
   file left an account two records of one date; its save is pending. *)
C25_Witness ==
    /\ \E i \in 1..Len(allTests) : \E j \in (i + 1)..Len(allTests) :
          /\ Tied(allTests[i], allTests[j])
          /\ allTests[i].importId # allTests[j].importId
    /\ saveQueue # <<>>
    /\ Top(saveQueue).awaiter = 0
    /\ Len(Top(saveQueue).data.tests) = Len(allTests)
    /\ Len(undoHistory) = 2

-----------------------------------------------------------------------------
(* The stored fields of every record the program holds: in the collection,
   in the snapshots of both stacks, and in the loaded data not yet
   installed *)
StoredIn(tests) == { StoredFields(tests[k]) : k \in 1..Len(tests) }

HeldRecords ==
    StoredIn(allTests)
      \cup UNION { StoredIn(undoHistory[n]) : n \in 1..Len(undoHistory) }
      \cup UNION { StoredIn(redoHistory[n]) : n \in 1..Len(redoHistory) }
      \cup StoredIn(dataFile.tests)
      \cup StoredIn(loadCall.migratedData.tests)

(* C26: a successful import appends its records behind all stored records
   and leaves email, testingDate, eventName, queueNumber, queueAnchor and
   importId of every stored record as they are, in the same order; anchor
   inference never changes the anchor of a stored record, even of one with
   the same event name; and no operation ever rewrites these fields of a
   stored record. *)
C26_StoredFieldsKept ==
    [][/\ \A i \in ImportCallIds :
            ImportStep(i) =>
              /\ Len(allTests') > Len(allTests)
              /\ StoredFieldsOf(SubSeq(allTests', 1, Len(allTests)))
                    = StoredFieldsOf(allTests)
              /\ \A k \in (Len(allTests) + 1)..Len(allTests') :
                    allTests'[k].importId = i
       /\ \A k \in 1..Len(allTests') :
            \/ StoredFields(allTests'[k]) \in HeldRecords
            \/ \E i \in ImportCallIds : ImportStep(i) /\ k > Len(allTests)
      ]_vars

(* A stored record without anchor stands before imported records of the
   same event whose anchor was inferred. *)
C26_Witness ==
    /\ Len(allTests) >= 3
    /\ allTests[1].importId = NoImportId
    /\ allTests[1].queueAnchor = Null
    /\ \E k \in 2..Len(allTests) :
          /\ allTests[k].eventName = allTests[1].eventName
          /\ allTests[k].importId # NoImportId
          /\ allTests[k].queueAnchor = 2000
          /\ allTests[k].queueNumber = 500

-----------------------------------------------------------------------------
(* A step of import, clear-all, removal, undo or redo that changes the
   dataset in memory *)
DatasetChanged ==
    /\ loadCall.pc = "ready"
    /\ loadCall' = loadCall
    /\ <<allTests, importHistory>>' # <<allTests, importHistory>>

(* The answer to the last pending save arrives, and the save is not the
   re-save of loadData *)
LastSaveApplied ==
    /\ saveQueue # <<>>
    /\ saveQueue' = <<>>
    /\ Head(saveQueue).awaiter # AwaitLoad

(* C27: every operation that changes the dataset in memory issues a save
   of the dataset it leaves, awaited or not; with the saves applied in the
   order of their issue, whenever no save is pending the persisted tests
   and imports are the collection and the batch list in memory. *)
C27_SavesFollowChanges ==
    [][/\ DatasetChanged =>
            /\ Len(saveQueue') = Len(saveQueue) + 1
            /\ SubSeq(saveQueue', 1, Len(saveQueue)) = saveQueue
            /\ Top(saveQueue').data = DataToSave(allTests', importHistory')
       /\ LastSaveApplied =>
            /\ dataFile'.version = CURRENT_SCHEMA_VERSION
            /\ StoredFieldsOf(dataFile'.tests) = StoredFieldsOf(allTests')
            /\ dataFile'.imports = importHistory'
       /\ (saveQueue = <<>> /\ saveQueue' = <<>>) =>
            UNCHANGED <<allTests, importHistory, dataFile>>
               \/ loadCall' # loadCall
      ]_vars

(* After an import and an undone further change, the save the undo did
   not await has been applied: nothing is pending and the file holds the
   imported records that memory holds. *)
C27_Witness ==
    /\ saveQueue = <<>>
    /\ redoHistory # <<>>
    /\ allTests # <<>>
    /\ \E k \in 1..Len(allTests) : allTests[k].importId \in ImportCallIds
    /\ StoredFieldsOf(dataFile.tests) = StoredFieldsOf(allTests)
    /\ dataFile.imports = importHistory

-----------------------------------------------------------------------------
(* The ids of the batches in a batch list *)
BatchIds(imports) == {imports[j].id : j \in 1..Len(imports)}

(* The number of records of a collection that carry a batch id *)
RecordsOfBatch(tests, id) ==
    Cardinality({k \in 1..Len(tests) : tests[k].importId = id})

(* The batch list and the records agree *)
BatchesAgree(tests, imports) ==
    /\ \A k \in 1..Len(tests) : tests[k].importId \in BatchIds(imports)
    /\ \A j \in 1..Len(imports) :
           RecordsOfBatch(tests, imports[j].id) = imports[j].testCount

(* The dataset was empty at the start: the collection and the snapshots
   of both histories hold nothing but records that imports of this run
   created *)
OnlyImportedRecords ==
    /\ \A k \in 1..Len(allTests) : allTests[k].importId \in ImportCallIds
    /\ \A h \in 1..Len(undoHistory) : \A k \in 1..Len(undoHistory[h]) :
           undoHistory[h][k].importId \in ImportCallIds
    /\ \A h \in 1..Len(redoHistory) : \A k \in 1..Len(redoHistory[h]) :
           redoHistory[h][k].importId \in ImportCallIds

(* C28: starting from an empty dataset, after any sequence of import,
   clear-all, removal of a batch, undo and redo, every record carries the
   id of a batch of the list, and every batch of the list has as many
   records as its testCount says.  The empty dataset agrees, so the claim
   holds exactly if no step of these operations leads from agreement to
   disagreement. *)
C28_BatchesAgreeWithRecords ==
    [][(/\ loadCall.pc = "ready"
        /\ OnlyImportedRecords
        /\ BatchesAgree(allTests, importHistory))
          => BatchesAgree(allTests', importHistory')]_vars

-----------------------------------------------------------------------------
(* The records of the collection that an import of this run created *)
ImportedRecords ==
    {allTests[k] : k \in {j \in 1..Len(allTests) :
                             allTests[j].importId \in ImportCallIds}}

(* A percentage between 0 and 100 inclusive *)
IsPercentage(p) ==
    /\ p # UndefinedPct
    /\ p[2] > 0
    /\ RatLeq(RatZero, p)
    /\ RatLeq(p, Rat(100, 1))

(* C29: in every state, each record that a successful import created has
   a queueAnchor that is not null, with 0 <= queueNumber <= queueAnchor
   <= 10,000,000, whether the anchor was given or inferred, and a
   queuePercent between 0 and 100 inclusive. *)
C29_ImportedRecordsInRange ==
    \A t \in ImportedRecords :
        /\ t.queueAnchor # Null
        /\ t.queueAnchor # NaN
        /\ 0 <= t.queueNumber
        /\ t.queueNumber <= t.queueAnchor
        /\ t.queueAnchor <= MaxQueueValue
        /\ IsPercentage(t.queuePercent)

(* Both imports have run: the collection holds a record with the
   inferred anchor 0, a record with the largest queue number and an
   inferred anchor, and a record of the other import whose anchor was
   inferred from 1500. *)
C29_Witness ==
    /\ Len(undoHistory) = 2
    /\ \E t \in ImportedRecords :
           t.eventName = EventE /\ t.queueNumber = 0 /\ t.queueAnchor = 0
    /\ \E t \in ImportedRecords :
           /\ t.queueNumber = MaxQueueValue
           /\ t.queueAnchor = MaxQueueValue
           /\ t.queuePercent = Rat(100, 1)
    /\ \E t \in ImportedRecords :
           t.queueNumber = 1500 /\ t.queueAnchor = 2000

-----------------------------------------------------------------------------
(* The record getOverallChange takes as the chronologically last one of
   an account: the last element of its ascending list *)
LastChronological(tests, email) ==
    tests[SortedGroup(tests, email, Len(tests),
              [i \in 1..Len(tests) |-> DateValue(tests[i].testingDate)])
          [Cardinality({i \in 1..Len(tests) : tests[i].email = email})]]

(* The record the account filter takes as the latest one of a row: the
   first element of the account's descending list *)
LatestOfRow(tests, row) == tests[row.tests[1]]

(* C30: for every account of the table, the record the account filter
   treats as the latest one is the record that recalculation numbers
   testingNum = N and that the overall change uses as the last one, also
   when several records of the account share the latest testingDate. *)
C30_LatestIsLastNumbered ==
    (Returned("renderTable") /\ callArg.currentFilter = "all") =>
        \A k \in 1..Len(callRet[1]) :
            /\ LatestOfRow(callArg.tests, callRet[1][k])
                 = NumberedRecord(callArg.tests, callRet[1][k].email,
                                  Len(callRet[1][k].tests))
            /\ LatestOfRow(callArg.tests, callRet[1][k])
                 = LastChronological(callArg.tests, callRet[1][k].email)

-----------------------------------------------------------------------------
(* The specification of single calls *)

CallInputs ==
    ChangeInputs
      \cup DateInputs
      \cup ValidateInputs
      \cup ParseInputs
      \cup BatchInputs
      \cup MigrateInputs
      \cup TableInputs
      \cup RecalculateInputs

InitCalls ==
    /\ allTests = <<>>
    /\ importHistory = <<>>
    /\ undoHistory = <<>>
    /\ redoHistory = <<>>
    /\ loadCall = [pc |-> "start", migratedData |-> AbsentFile]
    /\ importCalls = [i \in 1..MaxImportCalls |-> [pc |-> "idle"]]
    /\ confirmModal = NoModal
    /\ saveQueue = <<>>
    /\ dataFile = AbsentFile
    /\ toast = ""
    /\ callArg \in CallInputs
    /\ callRet = <<>>

NextCalls ==
    \/ CallGetOverallChange
    \/ CallNormalizeDate
    \/ CallValidateTestData
    \/ CallParseCSV
    \/ CallProcessNewTests
    \/ CallMigrateData
    \/ CallRenderTable
    \/ CallRecalculate

SpecCalls == InitCalls /\ [][NextCalls]_vars

=============================================================================
